---- MODULE Spec2Model ----
(***************************************************************************)
(* A model of crabdb: the object codec, the sharded in-memory store, the   *)
(* append-only log (AOL) store with crash recovery, and the worker pool.   *)
(* Bytes are naturals 0..255, byte strings are sequences of bytes.         *)
(***************************************************************************)
EXTENDS Integers, Sequences, FiniteSets, TLC

VARIABLES
    files,      \* AOL: the bytes of every log file on disk
    shards,     \* ConcurrentMap: one HashMap per shard
    phase,      \* "running" | "failed" (recovery Err) | "panicked"
    resp,       \* the last response an operation returned
    hist,       \* ghost: the operations whose record was fully written, in order
    memHist,    \* ghost: the operations the running store holds, in order
    layout,     \* ghost: per file, what each append left: [len, full]
    recov,      \* ghost: what the last recovery found on disk, and whether it
                \* rebuilt the store as it was when the process stopped
    nops,       \* number of client operations so far
    faults,     \* the run: "crash" | "io" (AOL faults), "none" (in-memory store),
                \* "conc" | "map" (worker threads), "pool" (thread pool)
    workers,    \* threads calling the store: the operation and the step each is at
    locks,      \* the file mutexes and the shard RwLocks: who holds them
    durable,    \* ghost: the records that sync_all has made durable
    lin,        \* ghost: the map the operations leave in the order they took effect
    queue,      \* ThreadPool: the signals waiting in the queue
    qlock,      \* ThreadPool: the holder of the queue mutex (0 free, -1 the owner, w a worker)
    wpc,        \* ThreadPool: the step of every worker thread
    wsig,       \* ThreadPool: the signal every worker has dequeued
    mainp,      \* ThreadPool: the thread that owns the pool
    enqLog,     \* ghost: the signals in the order they were enqueued
    deqLog,     \* ghost: the signals in the order they were dequeued
    ran,        \* ghost: the jobs that ran to completion
    conn,       \* connection: the step of its request loop, the command and result in hand
    wire,       \* ghost: what was read from the connection and what was written to it
    rin,        \* link resolver: the object and the max depth of the last call
    rout        \* link resolver: what the last call returned, the visited set it
                \* left, what a second call returned; ghost: how the call ran

concVars == <<workers, locks, durable, lin>>
poolVars == <<queue, qlock, wpc, wsig, mainp, enqLog, deqLog, ran>>
storeVars == <<files, shards, phase, resp, hist, memHist, layout, recov>>
connVars == <<conn, wire>>
resVars == <<rin, rout>>
extVars == <<connVars, resVars>>

vars == <<files, shards, phase, resp, hist, memHist, layout, recov, nops,
          faults, workers, locks, durable, lin, queue, qlock, wpc, wsig,
          mainp, enqLog, deqLog, ran, conn, wire, rin, rout>>

(***************************************************************************)
(* Bounds of the model.                                                    *)
(***************************************************************************)
NumFiles == 2
MaxOps == 2
MaxTorn == 1
MaxStoreOps == 4
MaxConcOps == 3
MaxLockOps == 2
NumWorkers == 2
MaxJobs == 2
MaxReqs == 2
MaxResPuts == 3
MaxDepth == 2
ExampleDepth == 10

(***************************************************************************)
(* Program constants.                                                      *)
(***************************************************************************)
NumShards == 4
LOG_TYPE_NUM_BYTES == 1
LOG_SIZE_NUM_BYTES == 8
KEY_LEN_NUM_BYTES == 2
INTERNAL_INT_SIZE == 8
TEXT_LEN_NUM_BYTES == 2
LOG_SET == 0
LOG_DEL == 1
NULL_TAG == 0
INT_TAG == 1
TEXT_TAG == 2
LIST_TAG == 3
MAP_TAG == 4
LINK_TAG == 5
PAYLOAD_SIZE_NUM_BYTES == 8
COMMAND_TYPE_NUM_BYTES == 1
CMD_GET == 0
CMD_SET == 1
CMD_DELETE == 2
CMD_CLOSE == 255
LINK_RESOLUTION_VAL == 1
ERROR_BYTE == 255
LIST_LEN_NUM_BYTES == 2
FIELD_NAME_LEN_NUM_BYTES == 2
FIELD_COUNT_NUM_BYTES == 2

(***************************************************************************)
(* Big-endian integers.                                                    *)
(***************************************************************************)
RECURSIVE ToBE(_, _)
ToBE(n, w) == IF w = 0 THEN <<>> ELSE ToBE(n \div 256, w - 1) \o <<n % 256>>

RECURSIVE FromBE(_)
FromBE(bs) ==
    IF bs = <<>> THEN 0
    ELSE 256 * FromBE(SubSeq(bs, 1, Len(bs) - 1)) + bs[Len(bs)]

Drop(bs, n) == SubSeq(bs, n + 1, Len(bs))
Take(bs, n) == SubSeq(bs, 1, n)

(***************************************************************************)
(* Results of the fallible functions: Ok(val, rest), Err, or a panic       *)
(* (an out-of-range slice index aborts the thread).                        *)
(***************************************************************************)
Ok(v, r) == [tag |-> "Ok", val |-> v, rest |-> r]
Err == [tag |-> "Err", val |-> <<>>, rest |-> <<>>]
Panic == [tag |-> "Panic", val |-> <<>>, rest |-> <<>>]

(***************************************************************************)
(* Objects: a kind and the payload bytes.                                  *)
(***************************************************************************)
Obj(k, d) == [kind |-> k, data |-> d]
NullObj == Obj("Null", <<>>)
IntObj(n) == Obj("Int", ToBE(n, INTERNAL_INT_SIZE))
TextObj(s) == Obj("Text", ToBE(Len(s), TEXT_LEN_NUM_BYTES) \o s)
LinkObj(k) == Obj("Link", ToBE(Len(k), KEY_LEN_NUM_BYTES) \o k)
\* Option::None of a map lookup
None == Obj("None", <<>>)

TagOf(kind) ==
    CASE kind = "Null" -> NULL_TAG
      [] kind = "Int" -> INT_TAG
      [] kind = "Text" -> TEXT_TAG
      [] kind = "List" -> LIST_TAG
      [] kind = "Map" -> MAP_TAG
      [] kind = "Link" -> LINK_TAG

\* Option<Object> -> Object: None becomes the Null object
OptInto(o) == IF o = None THEN NullObj ELSE o

(***************************************************************************)
(* UTF-8 validation (std::str::from_utf8).                                 *)
(***************************************************************************)
IsCont(b) == b >= 128 /\ b <= 191

RECURSIVE Utf8Valid(_)
Utf8Valid(bs) ==
    IF bs = <<>> THEN TRUE
    ELSE LET b == bs[1]
             n == Len(bs)
         IN
         CASE b < 128 -> Utf8Valid(Drop(bs, 1))
           [] b >= 194 /\ b <= 223 ->
                n >= 2 /\ IsCont(bs[2]) /\ Utf8Valid(Drop(bs, 2))
           [] b >= 224 /\ b <= 239 ->
                /\ n >= 3
                /\ IsCont(bs[2]) /\ IsCont(bs[3])
                /\ (b = 224 => bs[2] >= 160)
                /\ (b = 237 => bs[2] <= 159)
                /\ Utf8Valid(Drop(bs, 3))
           [] b >= 240 /\ b <= 244 ->
                /\ n >= 4
                /\ IsCont(bs[2]) /\ IsCont(bs[3]) /\ IsCont(bs[4])
                /\ (b = 240 => bs[2] >= 144)
                /\ (b = 244 => bs[2] <= 143)
                /\ Utf8Valid(Drop(bs, 4))
           [] OTHER -> FALSE

(***************************************************************************)
(* Keys.                                                                   *)
(***************************************************************************)
\* Key::new: | 2 bytes the length of the key (n) | n bytes the key itself |
KeyNew(bytes) ==
    IF Len(bytes) < KEY_LEN_NUM_BYTES THEN Err
    ELSE LET key_len == FromBE(Take(bytes, KEY_LEN_NUM_BYTES))
         IN
         IF key_len > 0
         THEN IF key_len + KEY_LEN_NUM_BYTES > Len(bytes)
              THEN Panic     \* slice end index out of range
              ELSE Ok(SubSeq(bytes, KEY_LEN_NUM_BYTES + 1, key_len + KEY_LEN_NUM_BYTES),
                      Drop(bytes, key_len + KEY_LEN_NUM_BYTES))
         ELSE Err

\* Key::to_bytes: the length prefix and the key
KeyToBytes(k) == ToBE(Len(k), KEY_LEN_NUM_BYTES) \o k

(***************************************************************************)
(* Per-type validators: (consumed payload, remaining).                     *)
(***************************************************************************)
NullValidate(bytes) == Ok(<<>>, bytes)

IntValidate(bytes) ==
    IF Len(bytes) < INTERNAL_INT_SIZE THEN Err
    ELSE Ok(Take(bytes, INTERNAL_INT_SIZE), Drop(bytes, INTERNAL_INT_SIZE))

TextValidate(bytes) ==
    IF Len(bytes) < TEXT_LEN_NUM_BYTES THEN Err
    ELSE LET text_len == FromBE(Take(bytes, TEXT_LEN_NUM_BYTES))
             total_size == TEXT_LEN_NUM_BYTES + text_len
         IN
         IF Len(bytes) < total_size THEN Err
         ELSE IF ~Utf8Valid(SubSeq(bytes, TEXT_LEN_NUM_BYTES + 1, total_size)) THEN Err
         ELSE Ok(Take(bytes, total_size), Drop(bytes, total_size))

\* Link format: same as Key (length prefix, non-empty key)
LinkValidate(bytes) ==
    IF Len(bytes) < KEY_LEN_NUM_BYTES THEN Err
    ELSE LET key_len == FromBE(Take(bytes, KEY_LEN_NUM_BYTES))
             total_size == KEY_LEN_NUM_BYTES + key_len
         IN
         IF key_len = 0 \/ Len(bytes) < total_size THEN Err
         ELSE Ok(Take(bytes, total_size), Drop(bytes, total_size))

(***************************************************************************)
(* Object codec.                                                           *)
(***************************************************************************)
\* Object::serialize: the tag byte then the payload bytes
Serialize(o) == <<TagOf(o.kind)>> \o o.data

WithKind(kind, r) == IF r.tag = "Ok" THEN Ok(Obj(kind, r.val), r.rest) ELSE r

RECURSIVE Deserialize(_)

\* List::validate_and_extract, the loop: list_len objects are deserialized
RECURSIVE ListValidateLoop(_, _)
ListValidateLoop(n, remaining_bytes) ==
    IF n = 0 THEN Ok(<<>>, remaining_bytes)
    ELSE LET d == Deserialize(remaining_bytes)
         IN IF d.tag = "Ok" THEN ListValidateLoop(n - 1, d.rest) ELSE Err

\* List format: | 2 bytes count | serialized objects... |
ListValidate(bytes) ==
    IF Len(bytes) < LIST_LEN_NUM_BYTES THEN Err
    ELSE LET list_len == FromBE(Take(bytes, LIST_LEN_NUM_BYTES))
             r == ListValidateLoop(list_len, Drop(bytes, LIST_LEN_NUM_BYTES))
         IN IF r.tag = "Ok"
            THEN Ok(Take(bytes, Len(bytes) - Len(r.rest)), r.rest)
            ELSE Err

\* Map::validate_and_extract, the loop over the fields:
\* | 2 bytes name length | name bytes | serialized object |
RECURSIVE MapValidateLoop(_, _)
MapValidateLoop(n, remaining_bytes) ==
    IF n = 0 THEN Ok(<<>>, remaining_bytes)
    ELSE IF Len(remaining_bytes) < FIELD_NAME_LEN_NUM_BYTES THEN Err
    ELSE LET field_name_len == FromBE(Take(remaining_bytes, FIELD_NAME_LEN_NUM_BYTES))
             after_len == Drop(remaining_bytes, FIELD_NAME_LEN_NUM_BYTES)
         IN IF Len(after_len) < field_name_len THEN Err
            ELSE IF ~Utf8Valid(Take(after_len, field_name_len)) THEN Err
            ELSE LET d == Deserialize(Drop(after_len, field_name_len))
                 IN IF d.tag = "Ok" THEN MapValidateLoop(n - 1, d.rest) ELSE Err

\* Map format: | 2 bytes field count | field entries... |
MapValidate(bytes) ==
    IF Len(bytes) < FIELD_COUNT_NUM_BYTES THEN Err
    ELSE LET field_count == FromBE(Take(bytes, FIELD_COUNT_NUM_BYTES))
             r == MapValidateLoop(field_count, Drop(bytes, FIELD_COUNT_NUM_BYTES))
         IN IF r.tag = "Ok"
            THEN Ok(Take(bytes, Len(bytes) - Len(r.rest)), r.rest)
            ELSE Err

\* Object::deserialize: the tag byte selects the validator
Deserialize(bytes) ==
    IF bytes = <<>> THEN Err
    ELSE LET tag == bytes[1]
             body == Drop(bytes, 1)
         IN
         CASE tag = NULL_TAG -> WithKind("Null", NullValidate(body))
           [] tag = INT_TAG -> WithKind("Int", IntValidate(body))
           [] tag = TEXT_TAG -> WithKind("Text", TextValidate(body))
           [] tag = LIST_TAG -> WithKind("List", ListValidate(body))
           [] tag = MAP_TAG -> WithKind("Map", MapValidate(body))
           [] tag = LINK_TAG -> WithKind("Link", LinkValidate(body))
           [] OTHER -> Err

(***************************************************************************)
(* The data of the model: two keys of different lengths, two values of     *)
(* different kinds.                                                        *)
(***************************************************************************)
Keys == {<<97>>, <<98, 100>>}
Values == {IntObj(3), TextObj(<<104>>)}

SetLog(k, o) == [op |-> "Set", key |-> k, obj |-> o]
DelLog(k) == [op |-> "Del", key |-> k, obj |-> None]
Logs == {SetLog(k, o) : k \in Keys, o \in Values} \cup {DelLog(k) : k \in Keys}

(***************************************************************************)
(* ConcurrentMap: a vector of shards, each a map from keys to values.      *)
(***************************************************************************)
EmptyShards == [i \in 0..(NumShards - 1) |-> <<>>]

RECURSIVE ByteSum(_)
ByteSum(bs) == IF bs = <<>> THEN 0 ELSE bs[1] + ByteSum(Drop(bs, 1))

\* DefaultHasher: a fixed function of the key's bytes
KeyHash(k) == ByteSum(k)

shard_index(k) == KeyHash(k) % NumShards

\* HashMap get / insert / remove; None is Option::None
HashGet(h, k) == IF k \in DOMAIN h THEN h[k] ELSE None
HashPut(h, k, v) == [x \in DOMAIN h \cup {k} |-> IF x = k THEN v ELSE h[x]]
HashDel(h, k) == [x \in DOMAIN h \ {k} |-> h[x]]

MapInsert(m, k, v) ==
    [map |-> [m EXCEPT ![shard_index(k)] = HashPut(@, k, v)],
     ret |-> HashGet(m[shard_index(k)], k)]

MapGet(m, k) == HashGet(m[shard_index(k)], k)

MapRemove(m, k) ==
    [map |-> [m EXCEPT ![shard_index(k)] = HashDel(@, k)],
     ret |-> HashGet(m[shard_index(k)], k)]

(***************************************************************************)
(* InMemoryStore: Store over the ConcurrentMap; an absent key is Null.     *)
(***************************************************************************)
\* a variant of store that answers the object it was given
MemStoreReturnsNew(m, k, o) == [map |-> MapInsert(m, k, o).map, ret |-> o]

MemStore(m, k, o) ==
    LET r == MapInsert(m, k, o) IN [map |-> r.map, ret |-> OptInto(r.ret)]

\* a variant of retrieve that hands out the lookup's None
MemRetrieveRaw(m, k) == MapGet(m, k)

MemRetrieve(m, k) == OptInto(MapGet(m, k))

\* a variant of remove that answers but keeps the entry
MemRemoveKeeps(m, k) == [map |-> m, ret |-> OptInto(MapGet(m, k))]

MemRemove(m, k) ==
    LET r == MapRemove(m, k) IN [map |-> r.map, ret |-> OptInto(r.ret)]

(***************************************************************************)
(* Log: the framed record of one operation.                                *)
(***************************************************************************)
\* a variant of the framing whose size field leaves out the op byte
LogDataSizeWithoutOp(log) ==
    LET key_bytes == KeyToBytes(log.key)
        object_bytes == IF log.op = "Set" THEN Serialize(log.obj) ELSE <<>>
    IN ToBE(Len(key_bytes) + Len(object_bytes), LOG_SIZE_NUM_BYTES)
           \o <<IF log.op = "Set" THEN LOG_SET ELSE LOG_DEL>> \o key_bytes \o object_bytes

\* Log::append builds: | 8 bytes size | 1 byte op | key | object (SET only) |
LogData(log) ==
    LET key_bytes == KeyToBytes(log.key)
    IN
    IF log.op = "Set"
    THEN LET object_bytes == Serialize(log.obj)
             log_size == Len(key_bytes) + Len(object_bytes) + LOG_TYPE_NUM_BYTES
         IN ToBE(log_size, LOG_SIZE_NUM_BYTES) \o <<LOG_SET>> \o key_bytes \o object_bytes
    ELSE LET log_size == Len(key_bytes) + LOG_TYPE_NUM_BYTES
         IN ToBE(log_size, LOG_SIZE_NUM_BYTES) \o <<LOG_DEL>> \o key_bytes

\* Log::from_bytes: parse one record body
LogFromBytes(data) ==
    IF Len(data) < LOG_TYPE_NUM_BYTES THEN Err
    ELSE LET log_type == data[1]
             body == Drop(data, 1)
         IN
         CASE log_type = LOG_SET ->
                LET k == KeyNew(body)
                IN IF k.tag # "Ok" THEN k
                   ELSE LET o == Deserialize(k.rest)
                        IN IF o.tag # "Ok" THEN o
                           ELSE Ok(SetLog(k.val, o.val), <<>>)
           [] log_type = LOG_DEL ->
                LET k == KeyNew(body)
                IN IF k.tag # "Ok" THEN k ELSE Ok(DelLog(k.val), <<>>)
           [] OTHER -> Err

(***************************************************************************)
(* AppendOnlyLogStore.                                                     *)
(***************************************************************************)
\* AppendOnlyLogStore::log: the file a key's records go to
file_index(k) == KeyHash(k) % NumFiles

\* the backing store's native store / remove
BackingApply(m, log) ==
    IF log.op = "Set" THEN MemStore(m, log.key, log.obj) ELSE MemRemove(m, log.key)

\* The 8-byte size is kept as its 5 high bytes and the value of its 3 low
\* bytes: every buffer of the model is shorter than 2^24 bytes.
U24 == 256 * 256 * 256
SizeIsSmall(bs) == \A i \in 1..5 : bs[i] = 0
SizeLow(bs) == FromBE(Drop(bs, 5))
\* offset + log_size exceeds usize: an overflow panic, or (wrapping) a reversed slice
SizeWraps(bs, off) == (\A i \in 1..5 : bs[i] = 255) /\ SizeLow(bs) + off >= U24

\* a variant of the recovery loop that fails on any incomplete record
RecoverFromStrict(buffer, offset, m) ==
    IF Len(buffer) > offset THEN [tag |-> "Err", map |-> m] ELSE [tag |-> "Ok", map |-> m]

\* recover_from_file_index: the while loop over one file's buffer
RECURSIVE RecoverFrom(_, _, _)
RecoverFrom(buffer, offset, m) ==
    IF ~(offset < Len(buffer)) THEN [tag |-> "Ok", map |-> m]
    ELSE IF offset + LOG_SIZE_NUM_BYTES > Len(buffer)
    THEN [tag |-> "Ok", map |-> m]         \* incomplete size field: break
    ELSE LET size_bytes == SubSeq(buffer, offset + 1, offset + LOG_SIZE_NUM_BYTES)
             log_size == SizeLow(size_bytes)
             off == offset + LOG_SIZE_NUM_BYTES
         IN
         IF SizeWraps(size_bytes, off)
         THEN [tag |-> "Panic", map |-> m]
         ELSE IF ~SizeIsSmall(size_bytes) \/ off + log_size > Len(buffer)
         THEN [tag |-> "Ok", map |-> m]     \* incomplete entry: break
         ELSE LET e == LogFromBytes(SubSeq(buffer, off + 1, off + log_size))
              IN IF e.tag # "Ok" THEN [tag |-> e.tag, map |-> m]
                 ELSE RecoverFrom(buffer, off + log_size, BackingApply(m, e.val).map)

\* a variant of recover that replays the first file only
RecoverFilesFirstOnly(fs, i, m) == RecoverFrom(fs[0], 0, m)

\* recover: every file, in ascending index order
RECURSIVE RecoverFiles(_, _, _)
RecoverFiles(fs, i, m) ==
    IF i >= NumFiles THEN [tag |-> "Ok", map |-> m]
    ELSE LET r == RecoverFrom(fs[i], 0, m)
         IN IF r.tag # "Ok" THEN r ELSE RecoverFiles(fs, i + 1, r.map)

\* new_with_recovery over a fresh backing store
Recover(fs) == RecoverFiles(fs, 0, EmptyShards)

\* a variant of store / remove that calls the backing store whatever log() returned
AolApplyAlways(logged, m, log) ==
    [map |-> BackingApply(m, log).map,
     status |-> IF logged THEN "Ok" ELSE "Err",
     obj |-> IF logged THEN BackingApply(m, log).ret ELSE None]

\* store / remove after log(): the backing store is touched only on success
AolApply(logged, m, log) ==
    IF logged THEN LET r == BackingApply(m, log)
                   IN [map |-> r.map, status |-> "Ok", obj |-> r.ret]
    ELSE [map |-> m, status |-> "Err", obj |-> None]

\* The key-value map that a sequence of operations leaves (the reference).
RECURSIVE LastWrite(_, _)
LastWrite(h, k) ==
    IF h = <<>> THEN None
    ELSE LET l == h[Len(h)]
         IN IF l.key = k THEN (IF l.op = "Set" THEN l.obj ELSE None)
            ELSE LastWrite(SubSeq(h, 1, Len(h) - 1), k)

\* every key the store holds, in any shard
StoredKeys == UNION {DOMAIN shards[i] : i \in DOMAIN shards}

\* the store maps every key to what the operations h leave for it
StoreMatches(h) ==
    \A k \in Keys \cup StoredKeys : MapGet(shards, k) = LastWrite(h, k)

(***************************************************************************)
(* The AOL store run by one client at a time, with I/O errors, crashes     *)
(* and restarts.                                                           *)
(***************************************************************************)
NoResp == [op |-> "none", key |-> <<>>, status |-> "none", obj |-> None]

FileIds == 0..(NumFiles - 1)

\* ghost: the appends that left only a part of their record
TornCount ==
    Cardinality({p \in UNION {{<<f, i>> : i \in 1..Len(layout[f])} : f \in FileIds} :
                    ~layout[p[1]][p[2]].full})

HasMid(f) == \E i \in 1..(Len(layout[f]) - 1) : ~layout[f][i].full
HasTail(f) == layout[f] # <<>> /\ ~layout[f][Len(layout[f])].full

DiskState ==
    IF \E f \in FileIds : HasMid(f) THEN "mid"
    ELSE IF \E f \in FileIds : HasTail(f) THEN "tail"
    ELSE "clean"

\* the threads that call the store
Workers == {1, 2}

\* the keys the threads of the in-memory store work on: both live in one shard
ConcKeys == {<<97>>, <<101>>}

GetLog(k) == [op |-> "Get", key |-> k, obj |-> None]
NoLog == [op |-> "none", key |-> <<>>, obj |-> None]
IdleWorker == [pc |-> "idle", log |-> NoLog, ret |-> None, expect |-> None,
               applied |-> FALSE]
FreeLock == [writer |-> 0, readers |-> {}]

\* no thread has called the store, no lock is held
ConcIdle ==
    /\ workers = [w \in Workers |-> IdleWorker]
    /\ locks = [file |-> [f \in FileIds |-> 0],
                shard |-> [i \in 0..(NumShards - 1) |-> FreeLock]]
    /\ durable = {}
    /\ lin = [k \in ConcKeys |-> None]

\* the pool's worker threads
PoolWorkers == 1..NumWorkers

\* no signal yet
NoSignal == [kind |-> "none", id |-> 0]

\* ThreadPool::new: an empty queue, every worker about to lock it
PoolIdle ==
    /\ queue = <<>>
    /\ qlock = 0
    /\ wpc = [w \in PoolWorkers |-> "lock"]
    /\ wsig = [w \in PoolWorkers |-> NoSignal]
    /\ mainp = [pc |-> "idle", sig |-> NoSignal, jobs |-> 0, shutdowns |-> 0, joined |-> 0]
    /\ enqLog = <<>>
    /\ deqLog = <<>>
    /\ ran = {}

\* a connection that was just accepted: nothing read, nothing written
NoCommand == [op |-> "none", key |-> <<>>, obj |-> None, depth |-> -1]
ConnIdle ==
    /\ conn = [pc |-> "receive", cmd |-> NoCommand,
               result |-> [tag |-> "none", obj |-> None], logged |-> TRUE,
               nreq |-> 0]
    /\ wire = [reads |-> <<>>, sent |-> <<>>, stream |-> <<>>, pending |-> <<>>,
               got |-> <<>>]

\* the resolver before its first call: nothing returned, nothing visited
NoResolve ==
    [tag |-> "none", obj |-> NullObj, hops |-> 0, rep |-> FALSE, cut |-> FALSE,
     visited |-> {}, again |-> [tag |-> "none", inp |-> NullObj, obj |-> NullObj]]

\* no resolve call yet
ResolverIdle ==
    /\ rin = [obj |-> NullObj, depth |-> 0]
    /\ rout = NoResolve

InitCommon ==
    /\ files = [f \in FileIds |-> <<>>]
    /\ shards = EmptyShards
    /\ phase = "running"
    /\ resp = NoResp
    /\ hist = <<>>
    /\ memHist = <<>>
    /\ layout = [f \in FileIds |-> <<>>]
    /\ recov = [state |-> "none", fresh |-> FALSE, same |-> TRUE]
    /\ nops = 0
    /\ ConcIdle
    /\ PoolIdle
    /\ ConnIdle
    /\ ResolverIdle

InitAol == InitCommon /\ faults = "crash"

InitAolIo == InitCommon /\ faults = "io"

\* the record of every operation of the model
RecordOf == [l \in Logs |-> LogData(l)]

\* The bytes an append leaves in the key's file: write_all wrote n of them.
Appended(log, n) ==
    LET f == file_index(log.key)
        data == RecordOf[log]
    IN
    /\ files' = [files EXCEPT ![f] = @ \o Take(data, n)]
    /\ layout' = IF n = 0 THEN layout
                 ELSE [layout EXCEPT ![f] = Append(@, [len |-> n, full |-> n = Len(data)])]
    /\ hist' = IF n = Len(data) THEN Append(hist, log) ELSE hist

\* Where write_all can stop with an I/O error: before the record, after its
\* size field, after its key, or (no error) at its end.
WritePoints(log) ==
    IF faults \in {"io", "conn"}
    THEN {0, LOG_SIZE_NUM_BYTES,
          LOG_SIZE_NUM_BYTES + LOG_TYPE_NUM_BYTES + Len(KeyToBytes(log.key)),
          Len(RecordOf[log])}
    ELSE {Len(RecordOf[log])}

\* store / remove: log() appends and syncs the record, then the backing store
\* is called. write_all wrote n bytes; sync_all succeeded or not.
AolWrite(opname, log) ==
    /\ phase = "running"
    /\ nops < MaxOps
    /\ \E n \in WritePoints(log), synced \in BOOLEAN :
         LET full == n = Len(RecordOf[log])
             r == AolApply(full /\ synced, shards, log)
         IN
         /\ full \/ ~synced
         /\ ~(full /\ synced) => faults = "io"
         /\ (0 < n /\ ~full) => TornCount < MaxTorn
         /\ Appended(log, n)
         /\ shards' = r.map
         /\ resp' = [op |-> opname, key |-> log.key, status |-> r.status, obj |-> r.obj]
         /\ memHist' = IF r.status = "Ok" THEN Append(memHist, log) ELSE memHist
         /\ recov' = [recov EXCEPT !.fresh = FALSE]
         /\ nops' = nops + 1
         /\ UNCHANGED <<phase, faults, concVars, poolVars, extVars>>

AolStore(k, o) == AolWrite("store", SetLog(k, o))

AolRemove(k) == AolWrite("remove", DelLog(k))

\* retrieve goes to the backing store
AolRetrieve(k) ==
    /\ phase = "running"
    /\ nops < MaxOps
    /\ resp' = [op |-> "retrieve", key |-> k, status |-> "Ok", obj |-> MemRetrieve(shards, k)]
    /\ nops' = nops + 1
    /\ UNCHANGED <<files, shards, phase, hist, memHist, layout, recov, faults>>
    /\ UNCHANGED <<concVars, poolVars, extVars>>

\* new_with_recovery: the files are opened and replayed into a fresh store
Recovered ==
    LET r == Recover(files')
    IN
    /\ phase' = CASE r.tag = "Ok" -> "running"
                  [] r.tag = "Err" -> "failed"
                  [] OTHER -> "panicked"
    /\ shards' = IF r.tag = "Ok" THEN r.map ELSE EmptyShards
    /\ recov' = [state |-> DiskState', fresh |-> TRUE, same |-> shards' = shards]
    /\ memHist' = hist'
    /\ resp' = NoResp

\* a variant of the restart whose recovery logs every record it replays again
RestartRelogs ==
    /\ phase = "running"
    /\ files' = [f \in FileIds |-> files[f] \o files[f]]
    /\ UNCHANGED <<layout, hist>>
    /\ Recovered
    /\ UNCHANGED <<nops, faults, concVars, poolVars, extVars>>

\* The process stops while idle and is started again over the same directory.
Restart ==
    /\ phase = "running"
    /\ UNCHANGED <<files, layout, hist>>
    /\ Recovered
    /\ UNCHANGED <<nops, faults, concVars, poolVars, extVars>>

\* The process is killed inside the append of a record, after n of its bytes
\* reached the file, and is started again over the same directory.
CrashRestart ==
    /\ phase = "running"
    /\ faults = "crash"
    /\ nops < MaxOps
    /\ \E log \in Logs : \E n \in 1..Len(RecordOf[log]) :
         /\ n < Len(RecordOf[log]) => TornCount < MaxTorn
         /\ Appended(log, n)
    /\ Recovered
    /\ nops' = nops + 1
    /\ UNCHANGED <<faults, concVars, poolVars, extVars>>

NextAol ==
    \/ \E k \in Keys, o \in Values : AolStore(k, o)
    \/ \E k \in Keys : AolRemove(k)
    \/ \E k \in Keys : AolRetrieve(k)
    \/ Restart
    \/ CrashRestart

\* the AOL store under crashes and restarts
SpecAol == InitAol /\ [][NextAol]_vars

NextAolIo ==
    \/ \E k \in Keys, o \in Values : AolStore(k, o)
    \/ \E k \in Keys : AolRemove(k)
    \/ \E k \in Keys : AolRetrieve(k)
    \/ Restart

\* the AOL store under I/O errors (and clean restarts)
SpecAolIo == InitAolIo /\ [][NextAolIo]_vars

(***************************************************************************)
(* The in-memory store run by one client at a time on a fresh store.       *)
(***************************************************************************)
InitStore == InitCommon /\ faults = "none"

\* the response and the bookkeeping of one operation on the in-memory store
StoreStep(opname, k, m, ret, h) ==
    /\ phase = "running"
    /\ faults = "none"
    /\ nops < MaxStoreOps
    /\ shards' = m
    /\ resp' = [op |-> opname, key |-> k, status |-> "Ok", obj |-> ret]
    /\ memHist' = h
    /\ nops' = nops + 1
    /\ UNCHANGED <<files, phase, hist, layout, recov, faults, concVars, poolVars, extVars>>

MemStoreOp(k, o) ==
    LET r == MemStore(shards, k, o)
    IN StoreStep("store", k, r.map, r.ret, Append(memHist, SetLog(k, o)))

MemRetrieveOp(k) ==
    StoreStep("retrieve", k, shards, MemRetrieve(shards, k), memHist)

MemRemoveOp(k) ==
    LET r == MemRemove(shards, k)
    IN StoreStep("remove", k, r.map, r.ret, Append(memHist, DelLog(k)))

NextStore ==
    \/ \E k \in Keys, o \in Values : MemStoreOp(k, o)
    \/ \E k \in Keys : MemRetrieveOp(k)
    \/ \E k \in Keys : MemRemoveOp(k)

SpecStore == InitStore /\ [][NextStore]_vars

\* C4: a GET of key k answers the value of the most recent SET of k that no
\* DELETE of k followed, and Null when there is none.
C4_GetReturnsLastSet ==
    resp.op = "retrieve" => resp.obj = OptInto(LastWrite(memHist, resp.key))

\* a GET answered Null for a key that was set and then deleted, while the
\* other key is still stored
C4_Witness ==
    /\ faults = "none" /\ resp.op = "retrieve" /\ resp.obj = NullObj
    /\ \E i \in 1..Len(memHist) : memHist[i].op = "Set" /\ memHist[i].key = resp.key
    /\ StoredKeys # {}

\* C15: a SET answers the object its key held and leaves the new object
\* under the key, a DELETE answers the object its key held and leaves the key
\* absent, both answer Null for an absent key, and a GET of an absent key
\* answers Null; none of them answers an error.
C15_SetDeleteReturnPrior ==
    [][nops' = nops + 1 =>
          LET k == resp'.key
              prior == LastWrite(memHist, k)
          IN
          /\ resp'.status = "Ok"
          /\ resp'.obj = OptInto(prior)
          /\ prior = None => resp'.obj = NullObj
          /\ resp'.op = "store" =>
                MapGet(shards', k) = memHist'[Len(memHist')].obj
          /\ resp'.op = "remove" => MapGet(shards', k) = None
          /\ resp'.op = "retrieve" => MapGet(shards', k) = prior
      ]_vars

\* a key was set, set again to another object, and then deleted, and the
\* DELETE answered the second object
C15_Witness ==
    /\ faults = "none" /\ Len(memHist) = 3
    /\ memHist[1].op = "Set" /\ memHist[2].op = "Set" /\ memHist[3].op = "Del"
    /\ memHist[1].key = memHist[2].key /\ memHist[2].key = memHist[3].key
    /\ memHist[1].obj # memHist[2].obj
    /\ resp.op = "remove" /\ resp.obj = memHist[2].obj
    /\ MapGet(shards, resp.key) = None

(***************************************************************************)
(* Properties of the AOL store.                                            *)
(***************************************************************************)
\* C1: after a recovery over files that hold only fully written records, the
\* store is constructed and maps every key to what applying those records,
\* in the order they were written, leaves for it.
C1_RecoveryReplaysLog ==
    (recov.fresh /\ recov.state = "clean") => (phase = "running" /\ StoreMatches(hist))

\* a recovery has replayed two records and the store holds a key
C1_Witness ==
    /\ recov.fresh /\ recov.state = "clean" /\ phase = "running"
    /\ Len(hist) >= 2 /\ StoredKeys # {}

C6_TruncatedTailRecovers ==
    recov.state = "tail" =>
        /\ phase = "running"
        /\ recov.fresh => StoreMatches(hist)
        /\ StoreMatches(memHist)

\* a recovery met a torn last record after a fully written one
C6_Witness ==
    /\ recov.fresh /\ recov.state = "tail" /\ phase = "running"
    /\ hist # <<>> /\ StoredKeys # {}

\* C7: a recovery over a file with a partially written record that is not
\* the last of its file fails with an error.
C7_MidCorruptionFails ==
    (recov.fresh /\ recov.state = "mid") => phase = "failed"

\* C25: a restart over a file where records were appended behind a partially
\* written record (the tail at which an earlier recovery stopped) constructs
\* the store, and the store holds what all the fully written records leave.
C25_AppendsAfterTornTailRecovered ==
    (faults = "crash" /\ recov.fresh /\ recov.state = "mid")
        => (phase = "running" /\ StoreMatches(hist))

\* C26: under failing appends, a restart constructs the store and the store
\* it rebuilds is the store the stopped process held.
C26_FailedAppendKeepsLogAndStore ==
    (faults = "io" /\ recov.fresh) => (phase = "running" /\ recov.same)

(***************************************************************************)
(* The AOL store called by several threads. Every thread runs store,       *)
(* remove and retrieve one after the other; the steps of different threads *)
(* interleave. No I/O error and no crash happens here.                     *)
(***************************************************************************)
InitConcAol == InitCommon /\ faults = "conc"

\* a variant of store / remove that calls the backing store before log()
\* a variant of store / remove that keeps the guard of the file mutex over the
\* call of the backing store
WriteFlowKeepsGuard(pc) ==
    CASE pc = "lock" -> "write"
      [] pc = "write" -> "sync"
      [] pc = "sync" -> "apply"
      [] pc = "apply" -> "unlock"
      [] pc = "unlock" -> "done"

WriteFlowApplyFirst(pc) ==
    CASE pc = "lock" -> "apply"
      [] pc = "apply" -> "write"
      [] pc = "write" -> "sync"
      [] pc = "sync" -> "unlock"
      [] pc = "unlock" -> "done"

\* store / remove: log() locks the file, appends, syncs and drops the guard
\* when it returns; then the backing store is called; then the result returns
WriteFlow(pc) ==
    CASE pc = "lock" -> "write"
      [] pc = "write" -> "sync"
      [] pc = "sync" -> "unlock"
      [] pc = "unlock" -> "apply"
      [] pc = "apply" -> "done"

IsWrite(log) == log.op \in {"Set", "Del"}

ConcLogs == Logs \cup {GetLog(k) : k \in Keys}

ConcStep(w, pc) ==
    /\ faults \in {"conc", "lock"}
    /\ workers[w].pc = pc
    /\ UNCHANGED <<phase, resp, memHist, recov, faults, lin, poolVars, extVars>>

\* a variant of the store whose retrieve goes through the log as well
ConcCallLogsAll(w, log) ==
    /\ faults \in {"conc", "lock"}
    /\ workers[w].pc \in {"idle", "done"}
    /\ nops < (IF faults = "lock" THEN MaxLockOps ELSE MaxConcOps)
    /\ nops' = nops + 1
    /\ workers' = [workers EXCEPT ![w] = [IdleWorker EXCEPT !.log = log, !.pc = "lock"]]
    /\ UNCHANGED <<storeVars, faults, locks, durable, lin, poolVars, extVars>>

\* a thread calls store, remove or retrieve
ConcCall(w, log) ==
    /\ faults \in {"conc", "lock"}
    /\ workers[w].pc \in {"idle", "done"}
    /\ nops < (IF faults = "lock" THEN MaxLockOps ELSE MaxConcOps)
    /\ nops' = nops + 1
    /\ workers' = [workers EXCEPT ![w] =
                     [IdleWorker EXCEPT !.log = log,
                                        !.pc = IF IsWrite(log) THEN "lock" ELSE "apply"]]
    /\ UNCHANGED <<storeVars, faults, locks, durable, lin, poolVars, extVars>>

\* log(): file_mutex.lock()
ConcLock(w) ==
    LET f == file_index(workers[w].log.key)
    IN
    /\ ConcStep(w, "lock")
    /\ locks.file[f] = 0
    /\ locks' = [locks EXCEPT !.file[f] = w]
    /\ workers' = [workers EXCEPT ![w].pc = WriteFlow("lock")]
    /\ UNCHANGED <<files, shards, hist, layout, nops, durable>>

\* Log::append: file.write_all(&data)
ConcWrite(w) ==
    /\ ConcStep(w, "write")
    /\ Appended(workers[w].log, Len(RecordOf[workers[w].log]))
    /\ workers' = [workers EXCEPT ![w].pc = WriteFlow("write")]
    /\ UNCHANGED <<shards, nops, locks, durable>>

\* Log::append: file.sync_all()
ConcSync(w) ==
    /\ ConcStep(w, "sync")
    /\ durable' = durable \cup {workers[w].log}
    /\ workers' = [workers EXCEPT ![w].pc = WriteFlow("sync")]
    /\ UNCHANGED <<files, shards, hist, layout, nops, locks>>

\* log() returns: the guard of the file mutex is dropped
ConcUnlock(w) ==
    LET f == file_index(workers[w].log.key)
    IN
    /\ ConcStep(w, "unlock")
    /\ locks' = [locks EXCEPT !.file[f] = 0]
    /\ workers' = [workers EXCEPT ![w].pc = WriteFlow("unlock")]
    /\ UNCHANGED <<files, shards, hist, layout, nops, durable>>

\* backing_store.store / remove / retrieve: one call on the sharded map
ConcApply(w) ==
    LET log == workers[w].log
        r == IF IsWrite(log) THEN BackingApply(shards, log)
             ELSE [map |-> shards, ret |-> MemRetrieve(shards, log.key)]
    IN
    /\ ConcStep(w, "apply")
    /\ faults = "conc"
    /\ shards' = r.map
    /\ workers' = [workers EXCEPT ![w].ret = r.ret, ![w].applied = TRUE,
                                  ![w].pc = IF IsWrite(log) THEN WriteFlow("apply")
                                            ELSE "done"]
    /\ UNCHANGED <<files, hist, layout, nops, locks, durable>>

NextConcAol ==
    \/ \E w \in Workers, log \in ConcLogs : ConcCall(w, log)
    \/ \E w \in Workers : ConcLock(w)
    \/ \E w \in Workers : ConcWrite(w)
    \/ \E w \in Workers : ConcSync(w)
    \/ \E w \in Workers : ConcUnlock(w)
    \/ \E w \in Workers : ConcApply(w)

SpecConcAol == InitConcAol /\ [][NextConcAol]_vars

\* the records of the sequence h
Written(h) == {h[i] : i \in 1..Len(h)}

\* C2: a store or remove touches the backing store only after its whole
\* record is in the key's file and synced, and returns only after it touched
\* the backing store; every value the store holds or a retrieve returned has
\* a durable SET record.
C2_WriteAheadOrder ==
    /\ durable \subseteq Written(hist)
    /\ \A w \in Workers :
         LET t == workers[w]
         IN /\ (IsWrite(t.log) /\ t.applied) => t.log \in durable
            /\ (IsWrite(t.log) /\ t.pc = "done") => t.applied
            /\ (t.log.op = "Get" /\ t.pc = "done" /\ t.ret # NullObj)
                   => SetLog(t.log.key, t.ret) \in durable
    /\ \A k \in Keys :
         MapGet(shards, k) # None => SetLog(k, MapGet(shards, k)) \in durable

\* a retrieve returned a stored value while another thread has written its
\* record and not yet synced it
C2_Witness ==
    \E w, v \in Workers :
        /\ workers[w].log.op = "Get" /\ workers[w].pc = "done"
        /\ workers[w].ret # NullObj
        /\ workers[v].pc = "sync"

\* every thread is outside the store
Quiescent == \A w \in Workers : workers[w].pc \in {"idle", "done"}

\* C3: once every concurrent store and remove has returned, the backing
\* store holds for every key the value that replaying the log files gives.
C3_StoreEqualsLogReplay ==
    (faults = "conc" /\ Quiescent) =>
        \A k \in Keys : MapGet(shards, k) = MapGet(Recover(files).map, k)

(***************************************************************************)
(* The in-memory store called by several threads. A call on the sharded    *)
(* map takes the shard's RwLock, looks the key up, changes the HashMap and *)
(* drops the guard; the steps of different threads interleave.             *)
(***************************************************************************)
InitConcMap == InitCommon /\ faults = "map"

\* a variant of the RwLock that grants the write guard whoever holds the lock
CanWriteAlways(l) == TRUE

\* RwLock::write is granted when nobody holds the lock, RwLock::read when
\* no writer holds it
CanWrite(l) == l.writer = 0 /\ l.readers = {}
CanRead(l) == l.writer = 0

MapLogs ==
    {SetLog(k, o) : k \in ConcKeys, o \in Values}
        \cup {DelLog(k) : k \in ConcKeys} \cup {GetLog(k) : k \in ConcKeys}

MapStep(w, pc) ==
    /\ faults = "map"
    /\ workers[w].pc = pc
    /\ UNCHANGED <<files, phase, resp, hist, memHist, layout, recov, nops, faults,
                   durable, poolVars, extVars>>

\* a thread calls store, remove or retrieve of the InMemoryStore
MapCall(w, log) ==
    /\ faults = "map"
    /\ workers[w].pc \in {"idle", "done"}
    /\ nops < MaxConcOps
    /\ nops' = nops + 1
    /\ workers' = [workers EXCEPT ![w] = [IdleWorker EXCEPT !.log = log, !.pc = "acquire"]]
    /\ UNCHANGED <<storeVars, faults, locks, durable, lin, poolVars, extVars>>

\* shard.write() for insert / remove, shard.read() for get
MapAcquire(w) ==
    LET log == workers[w].log
        i == shard_index(log.key)
    IN
    /\ MapStep(w, "acquire")
    /\ IF IsWrite(log)
       THEN /\ CanWrite(locks.shard[i])
            /\ locks' = [locks EXCEPT !.shard[i].writer = w]
       ELSE /\ CanRead(locks.shard[i])
            /\ locks' = [locks EXCEPT !.shard[i].readers = @ \cup {w}]
    /\ workers' = [workers EXCEPT ![w].pc = "lookup"]
    /\ UNCHANGED <<shards, lin>>

\* the HashMap finds the entry of the key: the value the call will return.
\* A get takes effect here.
MapLookup(w) ==
    LET log == workers[w].log
    IN
    /\ MapStep(w, "lookup")
    /\ workers' = [workers EXCEPT
                     ![w].ret = MapGet(shards, log.key),
                     ![w].expect = IF IsWrite(log) THEN @ ELSE lin[log.key],
                     ![w].pc = IF IsWrite(log) THEN "mutate" ELSE "release"]
    /\ UNCHANGED <<shards, locks, lin>>

\* the HashMap puts the new value in the entry, or takes the entry out.
\* An insert or remove takes effect here.
MapMutate(w) ==
    LET log == workers[w].log
    IN
    /\ MapStep(w, "mutate")
    /\ shards' = IF log.op = "Set" THEN MapInsert(shards, log.key, log.obj).map
                 ELSE MapRemove(shards, log.key).map
    /\ lin' = [lin EXCEPT ![log.key] = IF log.op = "Set" THEN log.obj ELSE None]
    /\ workers' = [workers EXCEPT ![w].expect = lin[log.key], ![w].applied = TRUE,
                                  ![w].pc = "release"]
    /\ UNCHANGED locks

\* the guard is dropped and the call returns
MapRelease(w) ==
    LET log == workers[w].log
        i == shard_index(log.key)
    IN
    /\ MapStep(w, "release")
    /\ locks' = [locks EXCEPT !.shard[i] =
                   IF IsWrite(log) THEN [@ EXCEPT !.writer = 0]
                   ELSE [@ EXCEPT !.readers = @ \ {w}]]
    /\ workers' = [workers EXCEPT ![w].pc = "done"]
    /\ UNCHANGED <<shards, lin>>

NextConcMap ==
    \/ \E w \in Workers, log \in MapLogs : MapCall(w, log)
    \/ \E w \in Workers : MapAcquire(w)
    \/ \E w \in Workers : MapLookup(w)
    \/ \E w \in Workers : MapMutate(w)
    \/ \E w \in Workers : MapRelease(w)

SpecConcMap == InitConcMap /\ [][NextConcMap]_vars

\* C8: every call returns what it returns when the calls run one at a time
\* in the order they took effect (an order that keeps every thread's own
\* order, each call taking effect between its start and its return), and
\* when no call is running the map holds what that order leaves.
C8_PerKeyLinearizable ==
    faults = "map" =>
        /\ \A w \in Workers :
             workers[w].pc \in {"release", "done"}
                 => OptInto(workers[w].ret) = OptInto(workers[w].expect)
        /\ Quiescent => \A k \in ConcKeys : MapGet(shards, k) = lin[k]

\* two threads have stored different values under one key; the second got
\* the value of the first back
C8_Witness ==
    \E w, v \in Workers :
        /\ w # v
        /\ workers[w].pc = "done" /\ workers[v].pc = "done"
        /\ workers[w].log.op = "Set" /\ workers[v].log.op = "Set"
        /\ workers[w].log.key = workers[v].log.key
        /\ workers[w].log.obj # workers[v].log.obj
        /\ workers[v].ret = workers[w].log.obj

(***************************************************************************)
(* ThreadPool: a queue of signals behind a mutex and a condition variable, *)
(* worker threads that dequeue and run them, and the owner thread that     *)
(* calls execute and then join.                                            *)
(***************************************************************************)
InitPool == InitCommon /\ faults = "pool"

JobSignal(n) == [kind |-> "Job", id |-> n]
ShutdownSignal(n) == [kind |-> "Shutdown", id |-> n]

\* a variant of the queue that puts a new signal in front
EnqueueFront(q, item) == <<item>> \o q

\* Queue::enqueue: push_back
Enqueue(q, item) == Append(q, item)

\* a variant of the queue that takes the newest signal
DequeueBack(q) == [item |-> q[Len(q)], rest |-> SubSeq(q, 1, Len(q) - 1)]

\* a variant of the queue that hands out the oldest signal and keeps it
DequeuePeek(q) == [item |-> Head(q), rest |-> q]

\* Queue::dequeue: pop_front
Dequeue(q) == [item |-> Head(q), rest |-> Tail(q)]

PoolStep ==
    /\ faults = "pool"
    /\ UNCHANGED <<storeVars, nops, faults, concVars, extVars>>

\* execute: box the closure and send it
Execute ==
    /\ PoolStep
    /\ mainp.pc = "idle"
    /\ mainp.jobs < MaxJobs
    /\ mainp' = [mainp EXCEPT !.pc = "send", !.sig = JobSignal(mainp.jobs + 1),
                              !.jobs = @ + 1]
    /\ UNCHANGED <<queue, qlock, wpc, wsig, enqLog, deqLog, ran>>

\* send_signal: lock.lock()
SendLock ==
    /\ PoolStep
    /\ mainp.pc = "send"
    /\ qlock = 0
    /\ qlock' = -1
    /\ mainp' = [mainp EXCEPT !.pc = "enqueue"]
    /\ UNCHANGED <<queue, wpc, wsig, enqLog, deqLog, ran>>

\* send_signal: queue.enqueue(signal); drop(queue)
SendEnqueue ==
    /\ PoolStep
    /\ mainp.pc = "enqueue"
    /\ queue' = Enqueue(queue, mainp.sig)
    /\ enqLog' = Append(enqLog, mainp.sig)
    /\ qlock' = 0
    /\ mainp' = [mainp EXCEPT !.pc = "notify"]
    /\ UNCHANGED <<wpc, wsig, deqLog, ran>>

\* a variant of send_signal that notifies nobody
SendNotifyNobody ==
    /\ PoolStep
    /\ mainp.pc = "notify"
    /\ mainp' = [mainp EXCEPT !.pc = IF mainp.sig.kind = "Shutdown" THEN "shutdown" ELSE "idle"]
    /\ UNCHANGED <<queue, qlock, wpc, wsig, enqLog, deqLog, ran>>

\* send_signal: cvar.notify_one() wakes one waiting worker, if there is one
SendNotify ==
    /\ PoolStep
    /\ mainp.pc = "notify"
    /\ \/ \E w \in PoolWorkers : wpc[w] = "wait" /\ wpc' = [wpc EXCEPT ![w] = "lock"]
       \/ (\A w \in PoolWorkers : wpc[w] # "wait") /\ wpc' = wpc
    /\ mainp' = [mainp EXCEPT !.pc = IF mainp.sig.kind = "Shutdown" THEN "shutdown" ELSE "idle"]
    /\ UNCHANGED <<queue, qlock, wsig, enqLog, deqLog, ran>>

\* join is called
JoinCall ==
    /\ PoolStep
    /\ mainp.pc = "idle"
    /\ mainp' = [mainp EXCEPT !.pc = "shutdown"]
    /\ UNCHANGED <<queue, qlock, wpc, wsig, enqLog, deqLog, ran>>

\* a variant of join that sends one Shutdown signal more than there are workers
JoinShutdownExtra ==
    /\ PoolStep
    /\ mainp.pc = "shutdown"
    /\ mainp' = IF mainp.shutdowns < NumWorkers + 1
                THEN [mainp EXCEPT !.pc = "send", !.shutdowns = @ + 1,
                                   !.sig = ShutdownSignal(mainp.shutdowns + 1)]
                ELSE [mainp EXCEPT !.pc = "joining"]
    /\ UNCHANGED <<queue, qlock, wpc, wsig, enqLog, deqLog, ran>>

\* a variant of join that sends a single Shutdown signal
JoinShutdownOnce ==
    /\ PoolStep
    /\ mainp.pc = "shutdown"
    /\ mainp' = IF mainp.shutdowns < 1
                THEN [mainp EXCEPT !.pc = "send", !.shutdowns = @ + 1,
                                   !.sig = ShutdownSignal(mainp.shutdowns + 1)]
                ELSE [mainp EXCEPT !.pc = "joining"]
    /\ UNCHANGED <<queue, qlock, wpc, wsig, enqLog, deqLog, ran>>

\* join: one Shutdown signal for every worker, then the joins
JoinShutdown ==
    /\ PoolStep
    /\ mainp.pc = "shutdown"
    /\ mainp' = IF mainp.shutdowns < NumWorkers
                THEN [mainp EXCEPT !.pc = "send", !.shutdowns = @ + 1,
                                   !.sig = ShutdownSignal(mainp.shutdowns + 1)]
                ELSE [mainp EXCEPT !.pc = "joining"]
    /\ UNCHANGED <<queue, qlock, wpc, wsig, enqLog, deqLog, ran>>

\* join: worker.join() on the next worker; thread.join().unwrap() panics
\* when the worker thread panicked
JoinWorker ==
    LET w == mainp.joined + 1
    IN
    /\ PoolStep
    /\ mainp.pc = "joining"
    /\ mainp.joined < NumWorkers
    /\ wpc[w] \in {"exit", "panicked"}
    /\ mainp' = IF wpc[w] = "panicked" THEN [mainp EXCEPT !.pc = "panicked"]
                ELSE [mainp EXCEPT !.joined = @ + 1]
    /\ UNCHANGED <<queue, qlock, wpc, wsig, enqLog, deqLog, ran>>

\* join returns after the last worker was joined
JoinReturn ==
    /\ PoolStep
    /\ mainp.pc = "joining"
    /\ mainp.joined = NumWorkers
    /\ mainp' = [mainp EXCEPT !.pc = "returned"]
    /\ UNCHANGED <<queue, qlock, wpc, wsig, enqLog, deqLog, ran>>

\* worker: lock.lock(), also when cvar.wait takes the mutex again
WorkerLock(w) ==
    /\ PoolStep
    /\ wpc[w] = "lock"
    /\ qlock = 0
    /\ qlock' = w
    /\ wpc' = [wpc EXCEPT ![w] = "check"]
    /\ UNCHANGED <<queue, wsig, mainp, enqLog, deqLog, ran>>

\* worker: the queue is empty, cvar.wait(queue) gives the mutex up
WorkerWait(w) ==
    /\ PoolStep
    /\ wpc[w] = "check"
    /\ queue = <<>>
    /\ qlock' = 0
    /\ wpc' = [wpc EXCEPT ![w] = "wait"]
    /\ UNCHANGED <<queue, wsig, mainp, enqLog, deqLog, ran>>

\* a waiting worker wakes up without a notification
WorkerSpuriousWake(w) ==
    /\ PoolStep
    /\ wpc[w] = "wait"
    /\ wpc' = [wpc EXCEPT ![w] = "lock"]
    /\ UNCHANGED <<queue, qlock, wsig, mainp, enqLog, deqLog, ran>>

\* a variant of the worker that keeps the guard of the queue while it runs
WorkerDequeueKeepsGuard(w) ==
    /\ PoolStep
    /\ wpc[w] = "check"
    /\ queue # <<>>
    /\ queue' = Dequeue(queue).rest
    /\ wsig' = [wsig EXCEPT ![w] = Dequeue(queue).item]
    /\ deqLog' = Append(deqLog, Dequeue(queue).item)
    /\ wpc' = [wpc EXCEPT ![w] = "run"]
    /\ UNCHANGED <<qlock, mainp, enqLog, ran>>

\* worker: queue.dequeue() under the mutex; the guard is dropped
WorkerDequeue(w) ==
    /\ PoolStep
    /\ wpc[w] = "check"
    /\ queue # <<>>
    /\ queue' = Dequeue(queue).rest
    /\ wsig' = [wsig EXCEPT ![w] = Dequeue(queue).item]
    /\ deqLog' = Append(deqLog, Dequeue(queue).item)
    /\ qlock' = 0
    /\ wpc' = [wpc EXCEPT ![w] = "run"]
    /\ UNCHANGED <<mainp, enqLog, ran>>

\* worker: job() returns and the loop goes on, or Shutdown breaks the loop
WorkerRun(w) ==
    /\ PoolStep
    /\ wpc[w] = "run"
    /\ IF wsig[w].kind = "Job"
       THEN ran' = ran \cup {wsig[w].id} /\ wpc' = [wpc EXCEPT ![w] = "lock"]
       ELSE ran' = ran /\ wpc' = [wpc EXCEPT ![w] = "exit"]
    /\ UNCHANGED <<queue, qlock, wsig, mainp, enqLog, deqLog>>

\* worker: job() panics and the thread dies
WorkerPanic(w) ==
    /\ PoolStep
    /\ wpc[w] = "run"
    /\ wsig[w].kind = "Job"
    /\ wpc' = [wpc EXCEPT ![w] = "panicked"]
    /\ UNCHANGED <<queue, qlock, wsig, mainp, enqLog, deqLog, ran>>

NextPool ==
    \/ Execute
    \/ SendLock
    \/ SendEnqueue
    \/ SendNotify
    \/ JoinCall
    \/ JoinShutdown
    \/ JoinWorker
    \/ JoinReturn
    \/ \E w \in PoolWorkers : WorkerLock(w)
    \/ \E w \in PoolWorkers : WorkerWait(w)
    \/ \E w \in PoolWorkers : WorkerSpuriousWake(w)
    \/ \E w \in PoolWorkers : WorkerDequeue(w)
    \/ \E w \in PoolWorkers : WorkerRun(w)
    \/ \E w \in PoolWorkers : WorkerPanic(w)

SpecPool == InitPool /\ [][NextPool]_vars

\* C9: when join has returned, every job that execute enqueued has been
\* dequeued and has run to completion.
C9_ShutdownCompleteness ==
    mainp.pc = "returned" =>
        \A j \in 1..mainp.jobs :
            /\ j \in ran
            /\ \E i \in 1..Len(deqLog) : deqLog[i] = JobSignal(j)

\* join has returned after two jobs were enqueued
C9_Witness == mainp.pc = "returned" /\ mainp.jobs >= 2 /\ Len(enqLog) >= 2 + NumWorkers

\* C10: the k-th signal dequeued, by whichever worker, is the k-th signal
\* enqueued.
C10_FifoDequeue ==
    /\ Len(deqLog) <= Len(enqLog)
    /\ \A k \in 1..Len(deqLog) : deqLog[k] = enqLog[k]

\* a worker dequeued the second signal out of a queue that held two or more
C10_Witness ==
    /\ Len(deqLog) >= 2
    /\ Len(queue) >= 1
    /\ Len(enqLog) = Len(deqLog) + Len(queue)
    /\ \E w \in PoolWorkers : wpc[w] = "run" /\ wsig[w] = deqLog[Len(deqLog)]

(***************************************************************************)
(* The append-only-log store called by several threads, with both kinds of *)
(* lock as steps: the file mutex of log() and the shard RwLock that the    *)
(* call of the backing store takes and drops.                              *)
(***************************************************************************)
InitConcLock == InitCommon /\ faults = "lock"

\* backing_store.store / remove / retrieve: shard.write() or shard.read()
ShardAcquire(w) ==
    LET log == workers[w].log
        i == shard_index(log.key)
    IN
    /\ ConcStep(w, "apply")
    /\ faults = "lock"
    /\ IF IsWrite(log)
       THEN /\ CanWrite(locks.shard[i])
            /\ locks' = [locks EXCEPT !.shard[i].writer = w]
       ELSE /\ CanRead(locks.shard[i])
            /\ locks' = [locks EXCEPT !.shard[i].readers = @ \cup {w}]
    /\ workers' = [workers EXCEPT ![w].pc = "inshard"]
    /\ UNCHANGED <<files, shards, hist, layout, nops, durable>>

\* the HashMap is read or changed, the guard is dropped, the call returns
ShardApply(w) ==
    LET log == workers[w].log
        i == shard_index(log.key)
        r == IF IsWrite(log) THEN BackingApply(shards, log)
             ELSE [map |-> shards, ret |-> MemRetrieve(shards, log.key)]
    IN
    /\ ConcStep(w, "inshard")
    /\ shards' = r.map
    /\ locks' = [locks EXCEPT !.shard[i] =
                   IF IsWrite(log) THEN [@ EXCEPT !.writer = 0]
                   ELSE [@ EXCEPT !.readers = @ \ {w}]]
    /\ workers' = [workers EXCEPT ![w].ret = r.ret, ![w].applied = TRUE,
                                  ![w].pc = IF IsWrite(log) THEN WriteFlow("apply")
                                            ELSE "done"]
    /\ UNCHANGED <<files, hist, layout, nops, durable>>

NextConcLock ==
    \/ \E w \in Workers, log \in ConcLogs : ConcCall(w, log)
    \/ \E w \in Workers : ConcLock(w)
    \/ \E w \in Workers : ConcWrite(w)
    \/ \E w \in Workers : ConcSync(w)
    \/ \E w \in Workers : ConcUnlock(w)
    \/ \E w \in Workers : ShardAcquire(w)
    \/ \E w \in Workers : ShardApply(w)

\* every thread that can take a step takes one in the end; a thread is owed
\* a lock only when the lock stays free
SpecConcLock ==
    /\ InitConcLock /\ [][NextConcLock]_vars
    /\ \A w \in Workers :
         /\ WF_vars(ConcLock(w)) /\ WF_vars(ConcWrite(w)) /\ WF_vars(ConcSync(w))
         /\ WF_vars(ConcUnlock(w)) /\ WF_vars(ShardAcquire(w)) /\ WF_vars(ShardApply(w))

\* the locks a thread holds
FileLocksOf(w) == {f \in DOMAIN locks.file : locks.file[f] = w}
ShardLocksOf(w) ==
    {i \in DOMAIN locks.shard : locks.shard[i].writer = w \/ w \in locks.shard[i].readers}

\* C27: a thread that is about to take a lock holds none, a thread never
\* holds more than one, and every call of store, remove and retrieve
\* returns in the end.
C27_RequestsDeadlockFree ==
    /\ [](faults = "lock" =>
            \A w \in Workers :
              /\ workers[w].pc \in {"lock", "apply"} =>
                    (FileLocksOf(w) = {} /\ ShardLocksOf(w) = {})
              /\ Cardinality(FileLocksOf(w)) + Cardinality(ShardLocksOf(w)) <= 1
              /\ workers[w].pc = "inshard" =>
                    ShardLocksOf(w) = {shard_index(workers[w].log.key)})
    /\ \A w \in Workers :
         (faults = "lock" /\ workers[w].pc \notin {"idle", "done"})
             ~> (workers[w].pc = "done")

\* thread 1 is about to take the shard lock that thread 2 holds for a
\* write, after both have written a record to the same file
C27_Witness ==
    /\ faults = "lock"
    /\ workers[1].pc = "apply" /\ workers[2].pc = "inshard"
    /\ IsWrite(workers[1].log) /\ IsWrite(workers[2].log)
    /\ shard_index(workers[1].log.key) = shard_index(workers[2].log.key)
    /\ locks.shard[shard_index(workers[1].log.key)].writer = 2

(***************************************************************************)
(* The pool under a scheduler: every thread that can take a step takes one *)
(* in the end, and a thread that finds the queue mutex free again and      *)
(* again gets it in the end. Spurious wakeups are never owed.              *)
(***************************************************************************)
\* the owner thread and the workers outside of a job
PoolScheduling ==
    /\ SF_vars(SendLock) /\ WF_vars(SendEnqueue) /\ WF_vars(SendNotify)
    /\ WF_vars(JoinShutdown) /\ WF_vars(JoinWorker) /\ WF_vars(JoinReturn)
    /\ \A w \in PoolWorkers :
         SF_vars(WorkerLock(w)) /\ WF_vars(WorkerWait(w)) /\ WF_vars(WorkerDequeue(w))

\* the workers that no client can hold up: all but the first
FreeWorkers == PoolWorkers \ {1}

\* the job that worker 1 runs may block for ever (a slow client); the jobs
\* of the other workers end, by returning or by a panic
SpecPoolStuck ==
    /\ SpecPool
    /\ PoolScheduling
    /\ \A w \in FreeWorkers : WF_vars(WorkerRun(w) \/ WorkerPanic(w))

\* every job ends, by returning or by a panic
SpecPoolFair ==
    /\ SpecPool
    /\ PoolScheduling
    /\ \A w \in PoolWorkers : WF_vars(WorkerRun(w) \/ WorkerPanic(w))

\* the signals dequeued so far
Dequeued == {deqLog[i] : i \in 1..Len(deqLog)}

\* C23: the guard of the queue is never held by a worker that runs a job,
\* and while worker 1 is held up in its job every job that execute enqueues
\* is dequeued in the end by another worker, as long as one of them is alive.
C23_BlockedJobTiesOneWorker ==
    /\ [](\A w \in PoolWorkers : qlock = w => wpc[w] = "check")
    /\ \A j \in 1..MaxJobs :
         (JobSignal(j) \in Written(enqLog))
             ~> (\/ JobSignal(j) \in Dequeued
                 \/ \A w \in FreeWorkers : wpc[w] \in {"panicked", "exit"})

\* worker 1 is still in its job while another worker has dequeued and
\* finished a job enqueued later
C23_Witness ==
    /\ faults = "pool" /\ wpc[1] = "run" /\ wsig[1] = JobSignal(1)
    /\ 2 \in ran /\ 1 \notin ran

\* C24: a job that panics takes down its own worker only; when the owner
\* is through with join, every worker that left its loop through Shutdown
\* has been joined.
C24_PanicSparesSiblings ==
    (faults = "pool" /\ mainp.pc \in {"returned", "panicked"})
        => \A w \in PoolWorkers : wpc[w] = "exit" => w <= mainp.joined

\* C28: while the queue holds a signal and a worker waits on the condition
\* variable or is about to lock the queue, a signal is dequeued in the end
\* (the number of signals dequeued so far changes from even to odd or back).
C28_NoLostWakeup ==
    \A n \in {0, 1} :
        (/\ faults = "pool" /\ Len(deqLog) % 2 = n /\ queue # <<>>
         /\ \E w \in PoolWorkers : wpc[w] \in {"wait", "lock"})
            ~> (Len(deqLog) % 2 # n)

\* every worker waited when a job was enqueued, and the job has run
C28_Witness ==
    /\ faults = "pool" /\ 1 \in ran /\ mainp.jobs = 1 /\ Len(deqLog) = 1
    /\ \A w \in PoolWorkers : wpc[w] = "wait"

\* C29: no signal is dequeued twice, two workers never hold the same
\* signal, a worker takes a signal only when it holds none, and a job that
\* returns has not returned before.
C29_SignalConsumedOnce ==
    /\ [](faults = "pool" =>
            /\ \A i, j \in 1..Len(deqLog) : deqLog[i] = deqLog[j] => i = j
            /\ \A v, w \in PoolWorkers :
                 (wpc[v] = "run" /\ wpc[w] = "run" /\ wsig[v] = wsig[w]) => v = w
            /\ Cardinality({w \in PoolWorkers : wpc[w] = "run"}) <= NumWorkers)
    /\ [][\A w \in PoolWorkers :
            /\ wsig'[w] # wsig[w] => (wpc[w] = "check" /\ wpc'[w] = "run")
            /\ (wpc[w] = "run" /\ wpc'[w] = "lock") =>
                  (wsig[w].id \notin ran /\ ran' = ran \cup {wsig[w].id})
         ]_vars

\* both workers run a job at the same time
C29_Witness ==
    /\ faults = "pool"
    /\ \A w \in PoolWorkers : wpc[w] = "run" /\ wsig[w].kind = "Job"

Frame(payload) == ToBE(Len(payload), PAYLOAD_SIZE_NUM_BYTES) \o payload

GetCommand(k, d) == [op |-> "Get", key |-> k, obj |-> None, depth |-> d]
SetCommand(k, o) == [op |-> "Set", key |-> k, obj |-> o, depth |-> -1]
DeleteCommand(k) == [op |-> "Delete", key |-> k, obj |-> None, depth |-> -1]
CloseCommand == [op |-> "Close", key |-> <<>>, obj |-> None, depth |-> -1]

\* what receiving gives: a command, a protocol error, a network error, or a
\* panic of the thread
Received(tag, cmd) == [tag |-> tag, cmd |-> cmd]

\* GetParams::from_bytes: the loop over num_params parameters; d is the
\* link resolution found so far (-1: none)
RECURSIVE ParamsLoop(_, _, _)
ParamsLoop(n, data, d) ==
    IF n = 0 THEN [tag |-> "Ok", depth |-> d]
    ELSE IF data = <<>> THEN [tag |-> "Err", depth |-> d]
    ELSE IF data[1] = LINK_RESOLUTION_VAL
         THEN IF Drop(data, 1) = <<>> THEN [tag |-> "Err", depth |-> d]
              ELSE ParamsLoop(n - 1, Drop(data, 2), data[2])
         ELSE [tag |-> "Err", depth |-> d]

\* GetParams::from_bytes
GetParams(data) ==
    IF data = <<>> THEN [tag |-> "Ok", depth |-> -1]
    ELSE ParamsLoop(data[1], Drop(data, 1), -1)

\* Command::new: the command type selects the parser of the data
CommandNew(command_type, data) ==
    CASE command_type = CMD_GET ->
           LET k == KeyNew(data)
           IN IF k.tag = "Panic" THEN Received("Panic", NoCommand)
              ELSE IF k.tag = "Err" THEN Received("Proto", NoCommand)
              ELSE LET p == GetParams(k.rest)
                   IN IF p.tag = "Err" THEN Received("Proto", NoCommand)
                      ELSE Received("Ok", GetCommand(k.val, p.depth))
      [] command_type = CMD_SET ->
           LET k == KeyNew(data)
           IN IF k.tag = "Panic" THEN Received("Panic", NoCommand)
              ELSE IF k.tag = "Err" THEN Received("Proto", NoCommand)
              ELSE LET o == Deserialize(k.rest)
                   IN IF o.tag # "Ok" THEN Received("Proto", NoCommand)
                      ELSE Received("Ok", SetCommand(k.val, o.val))
      [] command_type = CMD_DELETE ->
           LET k == KeyNew(data)
           IN IF k.tag = "Panic" THEN Received("Panic", NoCommand)
              ELSE IF k.tag = "Err" THEN Received("Proto", NoCommand)
              ELSE Received("Ok", DeleteCommand(k.val))
      [] command_type = CMD_CLOSE -> Received("Ok", CloseCommand)
      [] OTHER -> Received("Proto", NoCommand)

\* Connection::recieve over the bytes that arrive before the stream ends:
\* read_exact of the size, read_exact of the payload, then the parse
Recieve(bytes) ==
    IF Len(bytes) < PAYLOAD_SIZE_NUM_BYTES THEN Received("Io", NoCommand)
    ELSE LET payload_size == FromBE(Take(bytes, PAYLOAD_SIZE_NUM_BYTES))
             rest == Drop(bytes, PAYLOAD_SIZE_NUM_BYTES)
         IN IF Len(rest) < payload_size THEN Received("Io", NoCommand)
            ELSE LET payload_buffer == Take(rest, payload_size)
                 IN IF payload_buffer = <<>> THEN Received("Proto", NoCommand)
                    ELSE CommandNew(payload_buffer[1],
                                    Drop(payload_buffer, COMMAND_TYPE_NUM_BYTES))

\* Connection::recieve: the bytes that its two read_exact calls take off the
\* stream; a stream that ends inside a frame is read to its end
RecieveConsumed(bytes) ==
    IF Len(bytes) < PAYLOAD_SIZE_NUM_BYTES THEN Len(bytes)
    ELSE LET payload_size == FromBE(Take(bytes, PAYLOAD_SIZE_NUM_BYTES))
         IN IF Len(bytes) - PAYLOAD_SIZE_NUM_BYTES < payload_size THEN Len(bytes)
            ELSE PAYLOAD_SIZE_NUM_BYTES + payload_size

\* Response::Payload(object) / Response::Error
Payload(o) == [tag |-> "Payload", obj |-> o]
ErrorResponse == [tag |-> "Error", obj |-> None]

\* a variant of the response encoding that reports an error as a Null object
ResponseBytesErrorAsNull(r) ==
    LET object == Serialize(IF r.tag = "Payload" THEN r.obj ELSE NullObj)
    IN ToBE(Len(object), PAYLOAD_SIZE_NUM_BYTES) \o object

\* Serialize for Response: | 8 bytes length | object | or | 8 bytes 1 | 255 |
ResponseBytes(r) ==
    IF r.tag = "Payload"
    THEN LET object == Serialize(r.obj)
         IN ToBE(Len(object), PAYLOAD_SIZE_NUM_BYTES) \o object
    ELSE ToBE(1, PAYLOAD_SIZE_NUM_BYTES) \o <<ERROR_BYTE>>

(***************************************************************************)
(* The request loop of one connection over the AOL store. The client sends *)
(* well-formed and malformed frames, closes, or the stream breaks; the log *)
(* write of a SET and the write of a response may fail.                    *)
(***************************************************************************)
InitConn == InitCommon /\ faults = "conn"

\* what the client makes arrive for one receive
GoodFrames ==
    {Frame(<<CMD_GET>> \o KeyToBytes(k)) : k \in Keys}
        \cup {Frame(<<CMD_SET>> \o KeyToBytes(k) \o Serialize(o)) : k \in Keys, o \in Values}
        \cup {Frame(<<CMD_CLOSE>>)}

\* an unknown op, no payload, a key of length 0, a key shorter than its
\* length prefix, an unknown object tag, an unknown GET parameter
BadFrames ==
    {Frame(<<7>>), Frame(<<>>), Frame(<<CMD_GET, 0, 0>>), Frame(<<CMD_GET, 0, 5, 97>>),
     Frame(<<CMD_SET, 0, 1, 97, 9>>), Frame(<<CMD_GET, 0, 1, 97, 1, 9>>)}

\* the stream ends before a frame, inside its size, inside its payload
BrokenFrames == {<<>>, <<0, 0, 0>>, <<0, 0, 0, 0, 0, 0, 0, 4, CMD_GET, 0>>}

Inputs == GoodFrames \cup BadFrames \cup BrokenFrames

\* a variant of the loop that reads the next request without sending
LoopSkipsSend(event) ==
    CASE event = "received" -> "dispatch"
      [] event = "receive_err" -> "ended"
      [] event = "terminated" -> "ended"
      [] event = "response" -> "receive"
      [] event = "sent" -> "receive"
      [] event = "send_err" -> "ended"

\* a variant of the loop that goes on after Terminated
LoopIgnoresClose(event) ==
    CASE event = "received" -> "dispatch"
      [] event = "receive_err" -> "ended"
      [] event = "terminated" -> "receive"
      [] event = "response" -> "send"
      [] event = "sent" -> "receive"
      [] event = "send_err" -> "ended"

\* Engine::start, the loop of a connection: where it goes after each event
LoopAfter(event) ==
    CASE event = "received" -> "dispatch"
      [] event = "receive_err" -> "ended"
      [] event = "terminated" -> "ended"
      [] event = "response" -> "send"
      [] event = "sent" -> "receive"
      [] event = "send_err" -> "ended"

ConnStep(pc) ==
    /\ faults = "conn"
    /\ conn.pc = pc
    /\ UNCHANGED <<phase, resp, recov, nops, faults, concVars, poolVars, resVars>>

\* connection.receive(): Ok(request) goes on, Err(e) breaks, a panic kills
\* the thread
ConnReceive(bytes) ==
    LET r == Recieve(bytes)
    IN
    /\ ConnStep("receive")
    /\ conn.nreq < MaxReqs
    /\ wire' = [wire EXCEPT !.reads = Append(@, r)]
    /\ conn' = CASE r.tag = "Ok" ->
                      [conn EXCEPT !.pc = LoopAfter("received"), !.cmd = r.cmd,
                                   !.nreq = @ + 1]
                 [] r.tag = "Panic" -> [conn EXCEPT !.pc = "panicked", !.nreq = @ + 1]
                 [] OTHER -> [conn EXCEPT !.pc = LoopAfter("receive_err"), !.nreq = @ + 1]
    /\ UNCHANGED <<files, shards, hist, memHist, layout>>

\* Request::Terminated => break
ConnClose ==
    /\ ConnStep("dispatch")
    /\ conn.cmd.op = "Close"
    /\ conn' = [conn EXCEPT !.pc = LoopAfter("terminated")]
    /\ UNCHANGED <<files, shards, hist, memHist, layout, wire>>

\* Request::Get(key) => storage.get(key)
ConnGet ==
    /\ ConnStep("dispatch")
    /\ conn.cmd.op = "Get"
    /\ conn' = [conn EXCEPT !.pc = LoopAfter("response"),
                            !.result = Payload(MemRetrieve(shards, conn.cmd.key)),
                            !.logged = TRUE]
    /\ UNCHANGED <<files, shards, hist, memHist, layout, wire>>

\* Request::Set(key, object) => storage.set(key, object): the AOL store
\* appends and syncs the record, then calls the backing store
ConnSet ==
    LET log == SetLog(conn.cmd.key, conn.cmd.obj)
    IN
    /\ ConnStep("dispatch")
    /\ conn.cmd.op = "Set"
    /\ \E n \in WritePoints(log), synced \in BOOLEAN :
         LET full == n = Len(RecordOf[log])
             r == AolApply(full /\ synced, shards, log)
         IN
         /\ full \/ ~synced
         /\ Appended(log, n)
         /\ shards' = r.map
         /\ memHist' = IF r.status = "Ok" THEN Append(memHist, log) ELSE memHist
         /\ conn' = [conn EXCEPT !.pc = LoopAfter("response"),
                                 !.logged = full /\ synced,
                                 !.result = IF r.status = "Ok" THEN Payload(r.obj)
                                            ELSE ErrorResponse]
    /\ UNCHANGED wire

IsOk(r) == r.tag = "Ok"

\* connection.send(response): the response is written, or the write fails
\* and the loop breaks
ConnSend ==
    /\ ConnStep("send")
    /\ \E ok \in BOOLEAN :
         IF ok
         THEN /\ wire' = [wire EXCEPT !.sent =
                            Append(@, [req |-> Len(SelectSeq(wire.reads, IsOk)),
                                       cmd |-> conn.cmd,
                                       status |-> conn.result.tag,
                                       bytes |-> ResponseBytes(conn.result)])]
              /\ conn' = [conn EXCEPT !.pc = LoopAfter("sent")]
         ELSE /\ wire' = wire
              /\ conn' = [conn EXCEPT !.pc = LoopAfter("send_err")]
    /\ UNCHANGED <<files, shards, hist, memHist, layout>>

NextConn ==
    \/ \E bytes \in Inputs : ConnReceive(bytes)
    \/ ConnClose
    \/ ConnGet
    \/ ConnSet
    \/ ConnSend

SpecConn == InitConn /\ [][NextConn]_vars

(***************************************************************************)
(* One connection's byte stream: the client writes whole frames, one after *)
(* the other, and recieve is called again and again on what has arrived.   *)
(***************************************************************************)
InitFrames == InitCommon /\ faults = "frames"

\* the frames of the client: well-formed ones, and the malformed ones
ClientFrames == GoodFrames \cup BadFrames

\* the bytes of a sequence of frames
RECURSIVE Concat(_)
Concat(fs) == IF fs = <<>> THEN <<>> ELSE fs[1] \o Concat(Tail(fs))

\* the client writes a frame to the stream
FrameArrive(f) ==
    /\ faults = "frames"
    /\ conn.pc = "receive"
    /\ nops < MaxReqs
    /\ nops' = nops + 1
    /\ wire' = [wire EXCEPT !.stream = @ \o f, !.pending = Append(@, f)]
    /\ UNCHANGED <<storeVars, faults, concVars, poolVars, conn, resVars>>

\* Connection::recieve on the bytes that have arrived: a panic kills the
\* thread that called it
FrameReceive ==
    LET r == Recieve(wire.stream)
    IN
    /\ faults = "frames"
    /\ conn.pc = "receive"
    /\ wire.stream # <<>>
    /\ wire' = [wire EXCEPT !.reads = Append(@, r),
                            !.stream = Drop(@, RecieveConsumed(wire.stream)),
                            !.pending = Tail(@),
                            !.got = Append(@, Head(wire.pending))]
    /\ conn' = [conn EXCEPT !.pc = IF r.tag = "Panic" THEN "panicked" ELSE "receive",
                            !.nreq = @ + 1]
    /\ UNCHANGED <<storeVars, nops, faults, concVars, poolVars, resVars>>

NextFrames ==
    \/ \E f \in ClientFrames : FrameArrive(f)
    \/ FrameReceive

SpecFrames == InitFrames /\ [][NextFrames]_vars


\* the requests read from the connection that call for a response
IsRequest(r) == r.tag = "Ok" /\ r.cmd.op # "Close"
Requests == SelectSeq(wire.reads, IsRequest)

\* C11: on one connection the i-th response written answers the i-th
\* non-CLOSE request read, and request i+1 is not read before response i has
\* been written.
C11_ResponsesInRequestOrder ==
    faults = "conn" =>
        /\ Len(wire.sent) <= Len(Requests)
        /\ Len(Requests) <= Len(wire.sent) + 1
        /\ conn.pc = "receive" => Len(Requests) = Len(wire.sent)
        /\ \A i \in 1..Len(wire.sent) :
             /\ wire.sent[i].req = i
             /\ wire.sent[i].cmd = Requests[i].cmd

\* a SET and then a GET were answered, the GET with the object just set
C11_Witness ==
    /\ faults = "conn" /\ Len(wire.sent) = 2
    /\ wire.sent[1].cmd.op = "Set" /\ wire.sent[2].cmd.op = "Get"
    /\ wire.sent[2].cmd.key = wire.sent[1].cmd.key
    /\ wire.sent[2].bytes = Frame(Serialize(wire.sent[1].cmd.obj))

\* C12: after a frame with a protocol error (unknown op, malformed key,
\* malformed object body, no payload) the connection stays open and the
\* error response is the next thing it sends.
C12_ProtocolErrorAnswered ==
    (faults = "conn" /\ wire.reads # <<>> /\ wire.reads[Len(wire.reads)].tag = "Proto")
        => /\ conn.pc = "send"
           /\ conn.result = ErrorResponse

\* the 0xFF response: | 8 bytes length 1 | 255 |
ErrorFrame == <<0, 0, 0, 0, 0, 0, 0, 1, 255>>

IsEnd(r) == r.tag = "Io" \/ (r.tag = "Ok" /\ r.cmd.op = "Close")

\* C14: a CLOSE request or an I/O error ends the request loop: nothing is
\* read after it, no response is written for it, and a failed write of a
\* response ends the loop too.
C14_CloseOrIoErrorEndsLoop ==
    /\ [](faults = "conn" =>
            \A i \in 1..Len(wire.reads) :
                IsEnd(wire.reads[i]) =>
                    /\ i = Len(wire.reads)
                    /\ conn.pc \in {"dispatch", "ended"}
                    /\ Len(wire.sent) = Len(Requests))
    /\ [][/\ (conn.pc = "dispatch" /\ conn.cmd.op = "Close" /\ conn'.pc # "dispatch")
             => (conn'.pc = "ended" /\ wire' = wire)
          /\ (conn.pc = "send" /\ conn'.pc # "send" /\ wire'.sent = wire.sent)
             => conn'.pc = "ended"
          /\ conn.pc = "ended" => UNCHANGED <<conn, wire, shards, files>>
         ]_vars

\* a request was answered, then CLOSE ended the loop
C14_Witness ==
    /\ faults = "conn" /\ conn.pc = "ended" /\ Len(wire.sent) = 1
    /\ Len(wire.reads) = 2 /\ wire.reads[2] = Received("Ok", CloseCommand)


(***************************************************************************)
(* Lists and maps as the resolver reads and rebuilds them.                 *)
(***************************************************************************)
\* what ListBuilder / MapBuilder build: the count, then the entries
ListObj(items_bytes, n) == Obj("List", ToBE(n, LIST_LEN_NUM_BYTES) \o items_bytes)
MapObj(fields_bytes, n) == Obj("Map", ToBE(n, FIELD_COUNT_NUM_BYTES) \o fields_bytes)

\* ListIterator::next until None: the objects of the list. The data comes
\* from a stored list; were it not valid, unwrap_unchecked would be undefined.
RECURSIVE ListItems(_, _)
ListItems(data, bytes_consumed) ==
    IF bytes_consumed = Len(data) THEN <<>>
    ELSE LET d == Deserialize(Drop(data, bytes_consumed))
         IN IF d.tag = "Ok"
            THEN <<d.val>> \o ListItems(data, Len(data) - Len(d.rest))
            ELSE <<Obj("Undefined", <<>>)>>

\* MapIterator::next until None: (field name, object); the name is sliced
\* from behind its length prefix
RECURSIVE MapFields(_, _)
MapFields(data, bytes_consumed) ==
    IF bytes_consumed = Len(data) THEN <<>>
    ELSE LET rest == Drop(data, bytes_consumed)
             field_name_len == FromBE(Take(rest, FIELD_NAME_LEN_NUM_BYTES))
             field_name_end_pos == FIELD_COUNT_NUM_BYTES + field_name_len
             field_name == SubSeq(rest, FIELD_NAME_LEN_NUM_BYTES + 1, field_name_end_pos)
             d == Deserialize(Drop(rest, field_name_end_pos))
         IN IF d.tag = "Ok"
            THEN <<[name |-> field_name, obj |-> d.val]>>
                     \o MapFields(data, Len(data) - Len(d.rest))
            ELSE <<[name |-> <<>>, obj |-> Obj("Undefined", <<>>)]>>

\* Link -> Key and Key -> Link: a link's data is the key with its length
RECURSIVE SeqRange(_)
SeqRange(q) == IF q = <<>> THEN {} ELSE {q[1]} \cup SeqRange(Tail(q))
LinkIntoKey(object) == Drop(object.data, KEY_LEN_NUM_BYTES)
KeyIntoLink(key) == KeyToBytes(key)
\* From<Link> for Object
LinkIntoObject(data) == Obj("Int", data)

(***************************************************************************)
(* LinkResolver. The resolver's state st is the visited set and, as ghost, *)
(* the longest chain of links followed (hops), whether a key was followed  *)
(* twice on one chain (rep), whether the cycle check fired (cut). path is  *)
(* the chain of keys followed down to the object in hand (ghost).          *)
(***************************************************************************)
NewResolver == [visited |-> {}, hops |-> 0, rep |-> FALSE, cut |-> FALSE]

\* a variant of the cycle check that never finds the key
VisitedNever(key, visited) == FALSE

\* self.visited.contains(&key)
Visited(key, visited) == key \in visited

RECURSIVE resolve_links(_, _, _, _, _)
RECURSIVE resolve_items(_, _, _, _, _)
RECURSIVE resolve_fields(_, _, _, _, _)

\* resolve_link: a visited key ends the resolution with the link turned
\* back into an object; otherwise the key's object is retrieved, the key
\* marked, and the object resolved in turn
resolve_link(object, resolution_depth, max, path, st) ==
    LET key == LinkIntoKey(object)
    IN
    IF Visited(key, st.visited)
    THEN [obj |-> LinkIntoObject(KeyIntoLink(key)), st |-> [st EXCEPT !.cut = TRUE]]
    ELSE LET retrieved == MemRetrieve(shards, key)
             st2 == [st EXCEPT !.visited = @ \cup {key},
                               !.hops = IF Len(path) + 1 > @ THEN Len(path) + 1 ELSE @,
                               !.rep = @ \/ key \in SeqRange(path)]
         IN resolve_links(retrieved, resolution_depth, max, Append(path, key), st2)

\* the loop of resolve_list_links: each item resolved and added to the builder
resolve_items(items, resolution_depth, max, path, st) ==
    IF items = <<>> THEN [bytes |-> <<>>, st |-> st]
    ELSE LET r == resolve_links(items[1], resolution_depth, max, path, st)
             rest == resolve_items(Tail(items), resolution_depth, max, path, r.st)
         IN [bytes |-> Serialize(r.obj) \o rest.bytes, st |-> rest.st]

\* resolve_list_links: ListBuilder::new(list.len()), add_item_no_increment
\* for each resolved item, build
resolve_list_links(object, resolution_depth, max, path, st) ==
    LET r == resolve_items(ListItems(object.data, LIST_LEN_NUM_BYTES),
                           resolution_depth, max, path, st)
    IN [obj |-> ListObj(r.bytes, FromBE(Take(object.data, LIST_LEN_NUM_BYTES))),
        st |-> r.st]

\* the loop of resolve_map_links: add_field_no_increment(field_name, resolved)
resolve_fields(fields, resolution_depth, max, path, st) ==
    IF fields = <<>> THEN [bytes |-> <<>>, st |-> st]
    ELSE LET r == resolve_links(fields[1].obj, resolution_depth, max, path, st)
             rest == resolve_fields(Tail(fields), resolution_depth, max, path, r.st)
         IN [bytes |-> fields[1].name \o Serialize(r.obj) \o rest.bytes, st |-> rest.st]

\* resolve_map_links
resolve_map_links(object, resolution_depth, max, path, st) ==
    LET r == resolve_fields(MapFields(object.data, FIELD_COUNT_NUM_BYTES),
                            resolution_depth, max, path, st)
    IN [obj |-> MapObj(r.bytes, FromBE(Take(object.data, FIELD_COUNT_NUM_BYTES))),
        st |-> r.st]

\* resolve_links: past the max depth the object is returned as it is
resolve_links(object, resolution_depth, max, path, st) ==
    IF resolution_depth > max THEN [obj |-> object, st |-> st]
    ELSE LET depth == resolution_depth + 1
         IN CASE object.kind = "List" -> resolve_list_links(object, depth, max, path, st)
              [] object.kind = "Map" -> resolve_map_links(object, depth, max, path, st)
              [] object.kind = "Link" -> resolve_link(object, depth, max, path, st)
              [] OTHER -> [obj |-> object, st |-> st]

\* LinkResolver::new then resolve: the depth starts at 0, the visited set empty
Resolve(object, max_resolution_depth) ==
    LET r == resolve_links(object, 0, max_resolution_depth, <<>>, NewResolver)
    IN [tag |-> "Ok", obj |-> r.obj, hops |-> r.st.hops, rep |-> r.st.rep,
        cut |-> r.st.cut, visited |-> r.st.visited,
        again |-> [tag |-> "none", inp |-> NullObj, obj |-> NullObj]]

\* resolve called once more on a resolver that has resolved before: the depth
\* starts at 0 again, the visited set is what the earlier call left
ResolveAgain(object, max_resolution_depth, visited) ==
    resolve_links(object, 0, max_resolution_depth, <<>>,
                  [NewResolver EXCEPT !.visited = visited]).obj

(***************************************************************************)
(* The resolver over a store that a client fills: keys a, b, n; integers,  *)
(* links (to itself, to each other, to a plain object), a list of two      *)
(* links to one key, a list and a map holding one link.                    *)
(***************************************************************************)
KeyA == <<97>>
KeyB == <<98>>
KeyN == <<110>>
ResKeys == {KeyA, KeyB, KeyN}

ListOf(items) ==
    LET RECURSIVE Cat(_)
        Cat(q) == IF q = <<>> THEN <<>> ELSE Serialize(q[1]) \o Cat(Tail(q))
    IN ListObj(Cat(items), Len(items))

\* a map of one field f
MapOf(o) == MapObj(ToBE(1, FIELD_NAME_LEN_NUM_BYTES) \o <<102>> \o Serialize(o), 1)

ResValues ==
    {IntObj(1), LinkObj(KeyA), LinkObj(KeyB), LinkObj(KeyN),
     ListOf(<<LinkObj(KeyN), LinkObj(KeyN)>>), ListOf(<<LinkObj(KeyA)>>),
     MapOf(LinkObj(KeyB))}

\* objects that hold no link: plain ones, lists and maps of them, nested
LinkFree ==
    {NullObj, IntObj(1), TextObj(<<104>>), ListOf(<<IntObj(1), TextObj(<<104>>)>>),
     ListOf(<<ListOf(<<NullObj>>)>>), MapOf(IntObj(1)), ListOf(<<MapOf(NullObj)>>)}

Depths == (0..MaxDepth) \cup {ExampleDepth, 255}

InitResolver == InitCommon /\ faults = "res"

ResStep ==
    /\ faults = "res"
    /\ UNCHANGED <<files, phase, resp, hist, memHist, layout, recov, faults>>
    /\ UNCHANGED <<concVars, poolVars, connVars>>

\* SET k = o by the client, through the wire: the object is what
\* Object::deserialize makes of its bytes
ResStore(k, o) ==
    /\ ResStep
    /\ nops < MaxResPuts
    /\ Deserialize(Serialize(o)) = Ok(o, <<>>)
    /\ shards' = MemStore(shards, k, o).map
    /\ nops' = nops + 1
    /\ rin' = [obj |-> NullObj, depth |-> 0]
    /\ rout' = NoResolve

\* resolve(object) with max depth d over the store as it is, by a resolver
\* made for this call
ResResolve(o, d) ==
    /\ ResStep
    /\ rout.tag = "none"
    /\ rin' = [obj |-> o, depth |-> d]
    /\ rout' = Resolve(o, d)
    /\ UNCHANGED <<shards, nops>>

\* GET k with max depth d: the stored object is retrieved and resolved
ResGet(k, d) == ResResolve(MemRetrieve(shards, k), d)

\* the objects of a second call
AgainValues == {LinkObj(KeyN), ListOf(<<LinkObj(KeyA)>>)}

\* resolve(object) once more, on the resolver of the call before, for a
\* resolver made with the max depth of the example
ResResolveAgain(o) ==
    /\ ResStep
    /\ rout.tag = "Ok"
    /\ rin.depth = ExampleDepth
    /\ rout.again.tag = "none"
    /\ rout' = [rout EXCEPT !.again =
                  [tag |-> "Ok", inp |-> o,
                   obj |-> ResolveAgain(o, rin.depth, rout.visited)]]
    /\ UNCHANGED <<shards, nops, rin>>

NextResolver ==
    \/ \E k \in ResKeys, o \in ResValues : ResStore(k, o)
    \/ \E o \in ResValues \cup LinkFree, d \in Depths : ResResolve(o, d)
    \/ \E k \in ResKeys, d \in Depths : ResGet(k, d)
    \/ \E o \in AgainValues : ResResolveAgain(o)

SpecResolver == InitResolver /\ [][NextResolver]_vars


\* C16: over any store, with cycles and self-links, and any max depth, resolve
\* returns, no key is followed twice on one chain of links, and no chain is
\* longer than the number of keys.
C16_CycleSafety ==
    (faults = "res" /\ rin.obj # NullObj) =>
        /\ rout.tag = "Ok"
        /\ ~rout.rep
        /\ rout.hops <= Cardinality(ResKeys)

\* a and b link to each other, GET a ran with max depth 255 and the cycle
\* check ended the resolution
C16_Witness ==
    /\ faults = "res" /\ rout.tag = "Ok" /\ rout.cut
    /\ MemRetrieve(shards, KeyA) = LinkObj(KeyB)
    /\ MemRetrieve(shards, KeyB) = LinkObj(KeyA)
    /\ rin.obj = LinkObj(KeyB) /\ rin.depth = 255

\* C17: the number of links followed on any chain of a resolve is at most
\* the max depth of the call.
C17_DepthBound ==
    (faults = "res" /\ rout.tag = "Ok") => rout.hops <= rin.depth

\* C18: resolve of a top-level Link with max depth 0 returns that Link.
C18_DepthZeroKeepsLink ==
    (faults = "res" /\ rout.tag = "Ok" /\ rin.depth = 0 /\ rin.obj.kind = "Link")
        => rout.obj = rin.obj

\* C19: with n = Int(1), resolve of List[Link(n), Link(n)] with a max depth of
\* 1 or more returns List[Int(1), Int(1)].
C19_SiblingLinksResolve ==
    (/\ faults = "res" /\ rout.tag = "Ok"
     /\ rin.obj = ListOf(<<LinkObj(KeyN), LinkObj(KeyN)>>) /\ rin.depth >= 1
     /\ MemRetrieve(shards, KeyN) = IntObj(1))
        => rout.obj = ListOf(<<IntObj(1), IntObj(1)>>)

\* C20: with a = Link(b) and b = Link(a), GET a with max depth 10 returns the
\* Link at which the cycle check fired, an object of kind Link with key b.
C20_CycleReturnsLink ==
    (/\ faults = "res" /\ rout.tag = "Ok"
     /\ MemRetrieve(shards, KeyA) = LinkObj(KeyB)
     /\ MemRetrieve(shards, KeyB) = LinkObj(KeyA)
     /\ rin.obj = LinkObj(KeyB) /\ rin.depth = ExampleDepth)
        => (rout.obj.kind = "Link" /\ rout.obj = LinkObj(KeyB))


\* C21: resolve of an object that holds no Link returns the object, byte for
\* byte, whatever the max depth and the store.
C21_LinkFreeUnchanged ==
    (faults = "res" /\ rout.tag = "Ok" /\ rin.obj \in LinkFree) => rout.obj = rin.obj

\* C22: when resolve follows a Link whose key the store does not hold, the
\* Link is replaced by Null and resolve returns: a top-level Link gives Null,
\* a list of one such Link gives the list of Null.
C22_MissingKeyIsNull ==
    (faults = "res" /\ rout.tag = "Ok" /\ MapGet(shards, KeyA) = None) =>
        /\ rin.obj = LinkObj(KeyA) => rout.obj = NullObj
        /\ (rin.obj = ListOf(<<LinkObj(KeyA)>>) /\ rin.depth >= 1)
               => rout.obj = ListOf(<<NullObj>>)

\* the store holds other keys but not a, and the list of a Link to a was
\* resolved to the list of Null
C22_Witness ==
    /\ faults = "res" /\ rout.tag = "Ok" /\ MapGet(shards, KeyA) = None
    /\ StoredKeys # {}
    /\ rin.obj = ListOf(<<LinkObj(KeyA)>>) /\ rin.depth = 1
    /\ rout.obj = ListOf(<<NullObj>>)

\* C31: when join has returned the queue is empty: every signal that was
\* enqueued, Job or Shutdown, has been dequeued by a worker.
C31_JoinLeavesQueueEmpty ==
    (faults = "pool" /\ mainp.pc = "returned")
        => (queue = <<>> /\ deqLog = enqLog)

\* join has returned after jobs were still queued when it was called
C31_Witness ==
    /\ faults = "pool" /\ mainp.pc = "returned"
    /\ mainp.jobs = MaxJobs /\ Len(enqLog) = MaxJobs + NumWorkers
    /\ queue = <<>>

\* ConcurrentMap::insert and remove have returned when the call of the store
\* is done; ConcurrentMap::get has returned its Ref to retrieve once the entry
\* was found, and retrieve then clones the object and drops the Ref
MapOpReturned(w) ==
    \/ workers[w].pc = "done"
    \/ /\ workers[w].pc = "release"
       /\ workers[w].log.op = "Get"
       /\ workers[w].ret # None

\* C32: when insert, get or remove of the ConcurrentMap has returned to its
\* caller, the calling thread holds no shard lock.
C32_GuardReleasedOnReturn ==
    faults = "map" =>
        \A w \in Workers : MapOpReturned(w) => ShardLocksOf(w) = {}

\* the fully written records of one file, in the order they are on disk
FileHist(h, f) == SelectSeq(h, LAMBDA l : file_index(l.key) = f)

\* the store that applying a sequence of records to m leaves
RECURSIVE ReplayLogs(_, _)
ReplayLogs(logs, m) ==
    IF logs = <<>> THEN m ELSE ReplayLogs(Tail(logs), BackingApply(m, Head(logs)).map)

\* the records of file i, then those of file i + 1, and so on
RECURSIVE ReplayInFileOrder(_, _, _)
ReplayInFileOrder(h, i, m) ==
    IF i >= NumFiles THEN m
    ELSE ReplayInFileOrder(h, i + 1, ReplayLogs(FileHist(h, i), m))

RECURSIVE AppendedLen(_)
AppendedLen(l) == IF l = <<>> THEN 0 ELSE l[1].len + AppendedLen(Tail(l))

\* C34: a recovery leaves every log file as it found it: a restart that
\* appends no record changes no file, every file holds only the bytes that
\* appends of store and remove put there, and the recovered records are in
\* the backing store.
C34_RecoveryAppendsNothing ==
    /\ [][(faults = "crash" /\ recov'.fresh /\ layout' = layout) => files' = files]_vars
    /\ [](faults = "crash" => \A f \in FileIds : Len(files[f]) = AppendedLen(layout[f]))
    /\ []((faults = "crash" /\ recov.fresh /\ phase = "running") => shards = Recover(files).map)

\* a restart has replayed records into the store and the files hold them
C34_Witness ==
    /\ faults = "crash" /\ recov.fresh /\ recov.same /\ phase = "running"
    /\ resp = NoResp /\ StoredKeys # {}
    /\ \E f \in FileIds : Len(files[f]) > 0 /\ Len(layout[f]) >= 2

\* thread w is inside a call of retrieve
Retrieving(w) == workers[w].log.op = "Get" /\ workers[w].pc \notin {"idle", "done"}

\* C35: a thread inside retrieve is never at a step of log() and holds no
\* file mutex; its steps take no file mutex, change no log file and no entry
\* of the backing store; and retrieve returns what the backing store holds.
C35_RetrieveBypassesLog ==
    /\ [](faults = "lock" =>
            \A w \in Workers :
               Retrieving(w) =>
                  (workers[w].pc \in {"apply", "inshard"} /\ FileLocksOf(w) = {}))
    /\ [][\A w \in Workers :
            (faults = "lock" /\ Retrieving(w) /\ workers'[w] # workers[w]) =>
                /\ files' = files /\ shards' = shards /\ locks'.file = locks.file
                /\ workers'[w].pc = "done" =>
                      workers'[w].ret = MemRetrieve(shards, workers[w].log.key)
         ]_vars

\* thread 1 is inside retrieve, holding the shard lock, while thread 2 holds
\* the file mutex of the same key's file
C35_Witness ==
    /\ faults = "lock" /\ Retrieving(1) /\ workers[1].pc = "inshard"
    /\ locks.file[file_index(workers[1].log.key)] = 2

\* C36: a call of resolve on a resolver that has resolved before returns
\* what the same call returns on a resolver that has visited nothing.
C36_VisitedScopedToCall ==
    (faults = "res" /\ rout.again.tag = "Ok")
        => rout.again.obj = Resolve(rout.again.inp, rin.depth).obj

\* C37: after every frame that recieve has taken off the stream, the stream
\* starts at the length field of the next frame the client wrote; every
\* frame was parsed as if it had arrived alone and gave a command or an
\* error, a frame with p = 0 an error; and recieve can be called again.
C37_FrameSynchronised ==
    faults = "frames" =>
        /\ wire.stream = Concat(wire.pending)
        /\ conn.pc = "receive"
        /\ \A i \in 1..Len(wire.got) :
             /\ wire.reads[i] = Recieve(wire.got[i])
             /\ wire.reads[i].tag \in {"Ok", "Proto"}
             /\ Len(wire.got[i]) = PAYLOAD_SIZE_NUM_BYTES => wire.reads[i].tag = "Proto"

\* the bytes of a request's data do not hold a key: no length prefix, a
\* length of 0, or fewer bytes than the prefix and the length it declares
KeyMalformed(bytes) ==
    \/ Len(bytes) < KEY_LEN_NUM_BYTES
    \/ FromBE(Take(bytes, KEY_LEN_NUM_BYTES)) = 0
    \/ Len(bytes) < KEY_LEN_NUM_BYTES + FromBE(Take(bytes, KEY_LEN_NUM_BYTES))

\* C38: decoding the key of a request whose key has length 0, or has fewer
\* bytes than its length prefix declares, gives an error value, and the
\* request is answered by a protocol error.
C38_KeyDecodeFailsWithError ==
    faults = "frames" =>
        \A i \in 1..Len(wire.got) :
            LET payload == Drop(wire.got[i], PAYLOAD_SIZE_NUM_BYTES)
                data == Drop(payload, COMMAND_TYPE_NUM_BYTES)
            IN (/\ payload # <<>>
                /\ payload[1] \in {CMD_GET, CMD_SET, CMD_DELETE}
                /\ KeyMalformed(data))
                   => (KeyNew(data) = Err /\ wire.reads[i].tag = "Proto")

====
